---- MODULE Spec2Model ----
(***************************************************************************)
(* Tool execution pipeline of sugar (sugar/discovery/orchestrator.py):     *)
(* the ToolOrchestrator that runs configured external tools as             *)
(* subprocesses, the ToolResult value it returns, the shared temporary     *)
(* directory and the SIGINT/SIGTERM handlers it installs.                  *)
(*                                                                         *)
(* Strings are sequences of one-character strings, so that split(),       *)
(* startswith() and the path tests are computed as the code computes them. *)
(* Duration and log output carry no behaviour and are not modelled.        *)
(***************************************************************************)
EXTENDS Integers, Sequences, FiniteSets, TLC

\* ------------------------------------------------------------------ bounds
\* most tools one orchestrator is configured with
MaxTools == 3
\* most execute_tool invocations in one behaviour
MaxRuns == 3
\* most directories mkdtemp hands out in one behaviour
MaxDirs == 2
\* most orchestrators constructed in one process
MaxOrch == 2
\* most consecutive cleanup() calls
MaxCleanups == 3
\* most tools of the orchestrator whose results are read back
MaxReadTools == 1
\* most execute_tool invocations whose results are read back
MaxReadRuns == 2
\* most execute_tool invocations in a process that receives signals
MaxSigRuns == 2

\* ------------------------------------------------------------- vocabulary
\* Python's None for a str-valued field, for a Path and for temp_dir
NoneStr == "None"
NoPath == <<>>
NoDir == 0

SP == " "

\* expanded commands the tool configurations can produce
Cmd_blank == <<SP>>
Cmd_ls == <<"l", "s", SP, "x">>
Cmd_no == <<SP, "n", "o">>
Commands == {Cmd_blank, Cmd_ls, Cmd_no}

\* the environment of the process: executables on the search path and
\* absolute paths that exist
PathExecutables == {<<"l", "s">>}
ExistingPaths == {<<"/", "l", "s">>}

ToolNames == <<"t1", "t2", "t3", "t4", "t5", "t6">>
\* the validated lists an orchestrator can be configured with: distinct names
ToolLists ==
    UNION {{[i \in 1..n |-> [name |-> ToolNames[i], command |-> c[i]]] :
                c \in [1..n -> Commands]} : n \in 0..MaxTools}

\* bytes a child can leave in its output file; xFF is not valid UTF-8
Contents == {<<>>, <<"a", "xFF">>}
ChildStderr == {""}
ReturnCodes == {0, 1, -1}

SIGINT == 2
SIGTERM == 15
Sigs == {SIGINT, SIGTERM}
Frames == {"frame1"}

\* ---------------------------------------------------------- str helpers
RECURSIVE DropSpaces(_)
DropSpaces(s) ==
    IF s = <<>> THEN <<>>
    ELSE IF Head(s) = SP THEN DropSpaces(Tail(s)) ELSE s

RECURSIVE TakeWord(_)
TakeWord(s) ==
    IF s = <<>> \/ Head(s) = SP THEN <<>>
    ELSE <<Head(s)>> \o TakeWord(Tail(s))

\* str.split(): the whitespace-separated words of s, none of them empty
RECURSIVE Split(_)
Split(s) ==
    LET t == DropSpaces(s)
        w == TakeWord(t)
    IN  IF t = <<>> THEN <<>>
        ELSE <<w>> \o Split(SubSeq(t, Len(w) + 1, Len(t)))

StartsWith(s, p) ==
    /\ Len(p) <= Len(s)
    /\ SubSeq(s, 1, Len(p)) = p

\* p in s
Contains(s, p) ==
    \E i \in 1..(Len(s) - Len(p) + 1) : SubSeq(s, i, i + Len(p) - 1) = p

\* Path(executable).is_absolute()
IsAbsolute(s) == s # <<>> /\ Head(s) = "/"

\* str.decode / read_text with errors="replace"
Decode(bytes) ==
    [i \in 1..Len(bytes) |-> IF bytes[i] = "xFF" THEN "uFFFD" ELSE bytes[i]]


\* ---------------------------------------------------------------- state
VARIABLES
    external_tools,             \* self.external_tools of orchestrator 1
    constructed,                \* orchestrators 1..constructed exist
    temp_dir,                   \* self.temp_dir, per orchestrator
    original_sigint_handler,    \* self._original_sigint_handler, per orchestrator
    original_sigterm_handler,   \* self._original_sigterm_handler, per orchestrator
    handlers,                   \* the process's installed handler, per signal
    prior,                      \* the handlers installed before any orchestrator
    proc,                       \* "alive", "killed" (default disposition), "KeyboardInterrupt"
    delivery,                   \* what the signal delivery of the latest step did
    dirs,                       \* temporary directories that exist
    files,                      \* path -> bytes, for the files that exist
    mkdtemps,                   \* directories mkdtemp has handed out
    invoked,                    \* the tool_config of the latest execute_tool invocation
    call,                       \* the execute_tool invocation in progress
    child,                      \* the subprocess of the latest invocation
    batch,                      \* the execute_all loop in progress
    lastResult,                 \* what the latest execute_tool returned
    allResults,                 \* what the latest execute_all returned
    outcome,                    \* how the latest call of the orchestrator ended
    handles,                    \* output_path of every result execute_tool has returned
    cleaned,                    \* handles of the results returned before a cleanup() call
    leaked,                     \* handles whose cleanup() failed to remove the directory
    cleanups,                   \* consecutive cleanup() calls just made
    observed,                   \* the latest read of a result's stdout
    runs,                       \* execute_tool invocations so far
    spawns,                     \* subprocesses spawned so far
    pieces,                     \* what the text under interpretation was assembled from
    response,                   \* the text handed to the grammar parser
    parsed,                     \* what the latest _parse_command returned
    commands,                   \* what the latest _extract_commands returned
    called,                     \* the interpreter operations applied to the response
    discovery,                  \* the ExternalToolDiscovery instance: its settings and _processed_hashes
    log,                        \* the calls the instance has answered, oldest first
    config,                     \* the external_tools configuration read from the settings file
    validated,                  \* how validate_external_tools_config(config) ended
    environ,                    \* os.environ
    unexpanded,                 \* the command handed to expand_env_vars
    expanded,                   \* what expand_env_vars(unexpanded) returned
    json,                       \* the JSON validation fields of the result a caller holds
    answers,                    \* what is_json_output and json_parse_error of that result answered
    executed,                   \* the argument lists execute_commands has run as subprocesses
    discover_call,              \* the discover() call of the instance: how far it has come
    default_timeout,            \* self.default_timeout of orchestrator 1
    timeouts                    \* per execute_tool call: the override passed and the timeout given to subprocess.run

vars == <<external_tools, constructed, temp_dir, original_sigint_handler,
          original_sigterm_handler, handlers, prior, proc, delivery, dirs, files,
          mkdtemps, invoked, call, child, batch, lastResult, allResults, outcome, handles,
          cleaned, leaked, cleanups, observed, runs, spawns, pieces, response,
          parsed, commands, called, discovery, log, config, validated, environ,
          unexpanded, expanded, json, answers, executed, discover_call,
          default_timeout, timeouts>>

orchVars == <<external_tools, constructed, original_sigint_handler,
              original_sigterm_handler, handlers, prior>>
sigVars == <<proc, delivery>>
fsVars == <<dirs, files, mkdtemps>>
runVars == <<invoked, call, child, batch, lastResult, allResults, handles, runs, spawns>>
cfgVars == <<config, validated, environ, unexpanded, expanded>>
jsonVars == <<json, answers, executed>>
loopVars == <<discover_call, default_timeout, timeouts>>
pipeVars == <<pieces, response, parsed, commands, called, discovery, log, cfgVars, jsonVars,
              loopVars>>

Orchs == 1..MaxOrch

\* ------------------------------------------------------------ ToolResult
ToolResult(name, command, output_path, stderr, exit_code, success, error_message, timed_out, tool_not_found) ==
    [name |-> name, command |-> command, output_path |-> output_path,
     stderr |-> stderr, exit_code |-> exit_code, success |-> success,
     error_message |-> error_message, timed_out |-> timed_out,
     tool_not_found |-> tool_not_found]

NoResult == ToolResult("", <<>>, NoPath, "", 0, FALSE, NoneStr, FALSE, FALSE)

\* stdout without its except OSError clause: the error reaches the reader
stdout_unguarded(result, oserror) ==
    IF result.output_path # NoPath /\ result.output_path \in DOMAIN files
    THEN IF oserror THEN <<"OSError">> ELSE Decode(files[result.output_path])
    ELSE <<>>

\* ToolResult.stdout: the file is read on every call; oserror is whether
\* read_text fails
stdout(result, oserror) ==
    IF result.output_path # NoPath /\ result.output_path \in DOMAIN files
    THEN IF oserror THEN <<>> ELSE Decode(files[result.output_path])
    ELSE <<>>

_create_not_found_result(name, command, executable) ==
    ToolResult(name, command, NoPath, "Executable not found", -1, FALSE,
               "Tool executable not found in PATH", FALSE, TRUE)

\* a completion counted as a success only when the child returned 0
_create_success_result_zero_only(name, command, returncode, stderr, output_path) ==
    ToolResult(name, command, output_path, stderr, returncode, returncode = 0,
               NoneStr, FALSE, FALSE)

_create_success_result(name, command, returncode, stderr, output_path) ==
    ToolResult(name, command, output_path, stderr, returncode, TRUE,
               NoneStr, FALSE, FALSE)

\* a timeout result that always drops the output handle
_handle_timeout_error_no_handle(name, command, stderr, output_path, exists) ==
    ToolResult(name, command, NoPath, stderr, -1, FALSE,
               "Tool execution timed out", TRUE, FALSE)

\* exists is output_path.exists() at the time of the call
_handle_timeout_error(name, command, stderr, output_path, exists) ==
    ToolResult(name, command, IF exists THEN output_path ELSE NoPath,
               stderr, -1, FALSE, "Tool execution timed out", TRUE, FALSE)

\* an OS error result without its error message
_handle_os_error_no_message(name, command) ==
    ToolResult(name, command, NoPath, "str(OSError)", -1, FALSE,
               NoneStr, FALSE, FALSE)

\* an OS error that leaves nothing in stderr
_handle_os_error_silent(name, command) ==
    ToolResult(name, command, NoPath, "", -1, FALSE,
               "OS error executing tool", FALSE, FALSE)

_handle_os_error(name, command) ==
    ToolResult(name, command, NoPath, "str(OSError)", -1, FALSE,
               "OS error executing tool", FALSE, FALSE)

_handle_unexpected_error(name, command) ==
    ToolResult(name, command, NoPath, "str(Exception)", -1, FALSE,
               "Unexpected error", FALSE, FALSE)

\* ----------------------------------------------- _check_executable_exists
skip_check_prefixes ==
    {<<"n", "p", "x", SP>>, <<"n", "p", "m", SP>>, <<"y", "a", "r", "n", SP>>,
     <<"p", "n", "p", "m", SP>>, <<"b", "u", "n", "x", SP>>}

\* the check without the search-path lookup: any bare name passes
_check_executable_exists_no_lookup(executable) ==
    IF executable = <<>> THEN FALSE
    ELSE IF IsAbsolute(executable) THEN executable \in ExistingPaths
    ELSE TRUE

_check_executable_exists(executable) ==
    IF executable = <<>> THEN FALSE
    ELSE IF \E prefix \in skip_check_prefixes :
                StartsWith(executable, prefix) \/ Contains(executable, <<SP>> \o prefix)
         THEN TRUE
    ELSE IF IsAbsolute(executable) THEN executable \in ExistingPaths
    ELSE executable \in PathExecutables

\* command.split()[0] if command else "" raises IndexError when the
\* command holds whitespace only
SplitRaises(command) == command # <<>> /\ Split(command) = <<>>
Executable(command) == IF command = <<>> THEN <<>> ELSE Split(command)[1]

\* the file name pathlib keeps of f"{name}_output.txt" when it is joined to a
\* directory: a leading "./" is dropped
FileName(name) == IF name = "./t1" THEN "t1" ELSE name

\* one output file for all the tools of a directory
OutputPath_shared(dir, name) == <<dir, "output">>

\* temp_dir / f"{tool_config.name}_output.txt"
OutputPath(dir, name) == <<dir, FileName(name)>>


\* ------------------------------------------------------ signal handlers
SIG_DFL == [kind |-> "SIG_DFL", id |-> 0]
SIG_IGN == [kind |-> "SIG_IGN", id |-> 0]
\* signal.default_int_handler, which raises KeyboardInterrupt
default_int_handler == [kind |-> "default_int_handler", id |-> 0]
UserHandler(i) == [kind |-> "user", id |-> i]
\* the bound method self._signal_handler of orchestrator o
BoundHandler(o) == [kind |-> "orchestrator", id |-> o]
\* the value of the _original_*_handler fields before _setup_cleanup_handlers
NoHandler == [kind |-> "None", id |-> 0]

\* what signal.signal accepts: a callable, SIG_DFL or SIG_IGN
PriorHandlers == {SIG_DFL, SIG_IGN, default_int_handler, UserHandler(1)}
callable(h) == h.kind \in {"user", "default_int_handler", "orchestrator"}

NoDelivery == [sig |-> 0, frame |-> "", log |-> <<>>, orchestrators |-> 0]
Event(ev, id, signum, frame) == [ev |-> ev, id |-> id, sig |-> signum, frame |-> frame]

\* ----------------------------------------------------------- file system
FilesIn(fs, d) == {p \in DOMAIN fs : p[1] = d}
Restrict(f, S) == [x \in S |-> f[x]]
WriteFile(fs, p, bytes) == [x \in DOMAIN fs \cup {p} |-> IF x = p THEN bytes ELSE fs[x]]

\* shutil.rmtree(d): removes the directory and everything in it, or raises
\* OSError (fail) having removed all but the files in kept
rmtree(st, d, fail, kept) ==
    IF fail
    THEN [st EXCEPT !.files = Restrict(st.files, (DOMAIN st.files \ FilesIn(st.files, d)) \cup kept),
                    !.warned = TRUE]
    ELSE [st EXCEPT !.dirs = st.dirs \ {d},
                    !.files = Restrict(st.files, DOMAIN st.files \ FilesIn(st.files, d))]

\* cleanup that clears temp_dir in the try block, not in finally: a failed
\* removal leaves the reference set
cleanup_no_finally(st, o, fail, kept) ==
    IF st.temp_dir[o] # NoDir /\ st.temp_dir[o] \in st.dirs
    THEN IF fail THEN rmtree(st, st.temp_dir[o], fail, kept)
         ELSE [rmtree(st, st.temp_dir[o], fail, kept) EXCEPT !.temp_dir[o] = NoDir]
    ELSE st

\* a cleanup that puts back the handlers the orchestrator saved
cleanup_restoring(st, o, fail, kept) ==
    LET st2 == IF st.temp_dir[o] # NoDir /\ st.temp_dir[o] \in st.dirs
               THEN [rmtree(st, st.temp_dir[o], fail, kept) EXCEPT !.temp_dir[o] = NoDir]
               ELSE st
    IN  IF "handlers" \in DOMAIN st2
        THEN [st2 EXCEPT !.handlers = [s \in Sigs |->
                            IF s = SIGINT THEN original_sigint_handler[o]
                            ELSE original_sigterm_handler[o]]]
        ELSE st2

\* ToolOrchestrator.cleanup on st = [temp_dir, dirs, files, warned]
cleanup(st, o, fail, kept) ==
    IF st.temp_dir[o] # NoDir /\ st.temp_dir[o] \in st.dirs
    THEN [rmtree(st, st.temp_dir[o], fail, kept) EXCEPT !.temp_dir[o] = NoDir]
    ELSE st

FsState == [temp_dir |-> temp_dir, dirs |-> dirs, files |-> files, warned |-> FALSE]

\* ---------------------------------------------------------------- Init
NoTool == [name |-> "", command |-> <<>>]
IdleCall == [stage |-> "idle", o |-> 0, tool |-> NoTool,
             command |-> <<>>, output_path |-> NoPath, inAll |-> FALSE]
NoChild == [state |-> "none", returncode |-> 0, exists |-> FALSE]
NoBatch == [active |-> FALSE, results |-> <<>>]
NoOutcome == [op |-> "none", raised |-> NoneStr, warned |-> FALSE]
NoRead == [path |-> NoPath, val |-> <<>>, oserror |-> FALSE]

\* ParsedCommand(title="", raw_command=command_line): the dataclass defaults
ParsedCommand(title, raw_command) ==
    [title |-> title, task_type |-> <<"b", "u", "g", "_", "f", "i", "x">>, priority |-> 3,
     description |-> <<>>, urgent |-> FALSE,
     status |-> <<"p", "e", "n", "d", "i", "n", "g">>, raw_command |-> raw_command,
     valid |-> TRUE, validation_error |-> ""]
NoParsed == [ParsedCommand(<<>>, <<>>) EXCEPT !.valid = FALSE, !.validation_error = "not parsed"]
NoPieces == <<>>

\* ExternalToolDiscovery.__init__: hashseed stands for the hash function the
\* process was started with
Discovery(max_tasks_per_tool, use_claude_interpretation, claude_wrapper, hashseed) ==
    [max_tasks_per_tool |-> max_tasks_per_tool,
     use_claude_interpretation |-> use_claude_interpretation,
     claude_wrapper |-> claude_wrapper, hashseed |-> hashseed, _processed_hashes |-> {}]

\* nothing has been interpreted yet
\* Python's None, and what a call that has not been made has given
None == [type |-> "NoneType", value |-> <<>>]
NotCalled == [called |-> FALSE, raised |-> FALSE, index |-> 0 - 1, message |-> "", value |-> <<>>]

\* no configuration is validated and no command expanded
CfgIdle ==
    /\ config = None
    /\ validated = NotCalled
    /\ environ = <<>>
    /\ unexpanded = <<>>
    /\ expanded = NotCalled

\* the JSON validation fields of a new ToolResult with that output_path
Json(output_path) ==
    [output_path |-> output_path, _json_validated |-> FALSE, _is_json_output |-> FALSE,
     _json_parse_error |-> NoneStr]

\* an int, as far as Python tells it from None
PyInt(n) == [type |-> "int", value |-> n]
DEFAULT_TIMEOUT_SECONDS == PyInt(300)

\* discover() has not been called: the results execute_all gave it, how many
\* of them it has processed, its work_items, and the execute_work calls of
\* the interpreter, each with the result it is about
NotDiscovering ==
    [stage |-> "idle", results |-> <<>>, index |-> 0, work_items |-> <<>>,
     execute_work |-> <<>>]

\* no result is held, no command has been run and discover() is not called
JsonIdle ==
    /\ json = Json(NoPath)
    /\ answers = <<>>
    /\ executed = <<>>
    /\ discover_call = NotDiscovering
    /\ default_timeout = DEFAULT_TIMEOUT_SECONDS
    /\ timeouts = <<>>

PipeIdle ==
    /\ CfgIdle
    /\ JsonIdle
    /\ pieces = NoPieces
    /\ response = <<>>
    /\ parsed = NoParsed
    /\ commands = <<>>
    /\ called = {}
    /\ discovery = Discovery(50, FALSE, FALSE, 0)
    /\ log = <<>>

PythonDefaults == [s \in Sigs |-> IF s = SIGINT THEN default_int_handler ELSE SIG_DFL]

\* no tool has run yet
RunIdle ==
    /\ proc = "alive"
    /\ delivery = NoDelivery
    /\ dirs = {}
    /\ files = <<>>
    /\ mkdtemps = 0
    /\ invoked = NoTool
    /\ call = IdleCall
    /\ child = NoChild
    /\ batch = NoBatch
    /\ lastResult = NoResult
    /\ allResults = <<>>
    /\ outcome = NoOutcome
    /\ handles = {}
    /\ cleaned = {}
    /\ leaked = {}
    /\ cleanups = 0
    /\ observed = NoRead
    /\ runs = 0
    /\ spawns = 0
    /\ temp_dir = [o \in Orchs |-> NoDir]

InitRun ==
    /\ RunIdle
    /\ PipeIdle

\* one orchestrator, constructed in a process with Python's default handlers
Init ==
    /\ InitRun
    /\ external_tools \in ToolLists
    /\ constructed = 1
    /\ prior = PythonDefaults
    /\ original_sigint_handler = [o \in Orchs |-> IF o = 1 THEN prior[SIGINT] ELSE NoHandler]
    /\ original_sigterm_handler = [o \in Orchs |-> IF o = 1 THEN prior[SIGTERM] ELSE NoHandler]
    /\ handlers = [s \in Sigs |-> BoundHandler(1)]


\* --------------------------------------------------------- execute_tool
\* execute_tool returns result: to its caller, or into the execute_all loop,
\* which returns the list when the last tool is done
Return(result) ==
    /\ call' = IdleCall
    /\ lastResult' = result
    /\ handles' = handles \cup {result.output_path}
    /\ cleanups' = 0
    /\ IF batch.active
       THEN LET results == Append(batch.results, result)
            IN  IF Len(results) = Len(external_tools)
                THEN /\ batch' = NoBatch
                     /\ allResults' = results
                     /\ outcome' = [op |-> "execute_all", raised |-> NoneStr, warned |-> FALSE]
                ELSE /\ batch' = [batch EXCEPT !.results = results]
                     /\ outcome' = [op |-> "execute_tool", raised |-> NoneStr, warned |-> FALSE]
                     /\ allResults' = <<>>
       ELSE /\ outcome' = [op |-> "execute_tool", raised |-> NoneStr, warned |-> FALSE]
            /\ allResults' = <<>>
            /\ UNCHANGED batch

\* an exception leaves execute_tool, and execute_all when it is the caller
Raise(exception) ==
    /\ call' = IdleCall
    /\ batch' = NoBatch
    /\ cleanups' = 0
    /\ outcome' = [op |-> IF batch.active THEN "execute_all" ELSE "execute_tool",
                   raised |-> exception, warned |-> FALSE]
    /\ lastResult' = NoResult
    /\ allResults' = <<>>
    /\ UNCHANGED handles

\* a mkdtemp that hands out the same name again
mkdtemp_reusing(count) == IF count = 0 THEN 1 ELSE count

\* tempfile.mkdtemp: a directory name that was never handed out before
mkdtemp(count) == count + 1

\* _ensure_temp_dir making a new directory at every invocation
NeedsTempDir_always(o) == TRUE

\* _ensure_temp_dir needs a new directory
NeedsTempDir(o) == temp_dir[o] = NoDir \/ temp_dir[o] \notin dirs

\* execute_tool up to the point where subprocess.run blocks on the child:
\* the existence check, _ensure_temp_dir, open(output_path, "w") and the spawn
ExecuteToolStart(o, tool_config) ==
    LET command == tool_config.command
        name == tool_config.name
    IN
    /\ proc = "alive"
    /\ call.stage = "idle"
    /\ runs < MaxRuns
    /\ runs' = runs + 1
    /\ invoked' = tool_config
    /\ delivery' = NoDelivery
    /\ UNCHANGED <<pipeVars, orchVars, proc, cleaned, leaked, observed>>
    /\ \/ \* command.split()[0] on a whitespace-only command
          /\ SplitRaises(command)
          /\ Raise("IndexError")
          /\ child' = NoChild
          /\ UNCHANGED <<temp_dir, fsVars, spawns>>
       \/ \* the executable is not found
          /\ ~SplitRaises(command)
          /\ ~_check_executable_exists(Executable(command))
          /\ Return(_create_not_found_result(name, command, Executable(command)))
          /\ child' = NoChild
          /\ UNCHANGED <<temp_dir, fsVars, spawns>>
       \/ \* mkdir or mkdtemp of _ensure_temp_dir raises OSError, outside the try
          /\ ~SplitRaises(command)
          /\ _check_executable_exists(Executable(command))
          /\ NeedsTempDir(o)
          /\ Raise("OSError")
          /\ child' = NoChild
          /\ UNCHANGED <<temp_dir, fsVars, spawns>>
       \/ /\ ~SplitRaises(command)
          /\ _check_executable_exists(Executable(command))
          /\ NeedsTempDir(o) => mkdtemps < MaxDirs
          /\ LET created == NeedsTempDir(o)
                 dir == IF created THEN mkdtemp(mkdtemps) ELSE temp_dir[o]
                 output_path == OutputPath(dir, name)
             IN
             /\ temp_dir' = [temp_dir EXCEPT ![o] = dir]
             /\ dirs' = dirs \cup {dir}
             /\ mkdtemps' = IF created THEN mkdtemps + 1 ELSE mkdtemps
             /\ \/ \* open(output_path, "w") raises OSError
                   /\ Return(_handle_os_error(name, command))
                   /\ child' = NoChild
                   /\ UNCHANGED <<files, spawns>>
                \/ \* the file is created or truncated, the spawn raises OSError
                   /\ files' = WriteFile(files, output_path, <<>>)
                   /\ Return(_handle_os_error(name, command))
                   /\ child' = [NoChild EXCEPT !.state = "failed"]
                   /\ UNCHANGED spawns
                \/ \* the child runs
                   /\ files' = WriteFile(files, output_path, <<>>)
                   /\ spawns' = spawns + 1
                   /\ child' = [NoChild EXCEPT !.state = "running"]
                   /\ call' = [stage |-> "running", o |-> o, tool |-> tool_config,
                               command |-> command, output_path |-> output_path,
                               inAll |-> batch.active]
                   /\ cleanups' = 0
                   /\ lastResult' = NoResult
                   /\ allResults' = <<>>
                   /\ outcome' = NoOutcome
                   /\ UNCHANGED <<batch, handles>>

\* the child writes to its standard output, which is the output file
ChildWrite(bytes) ==
    /\ call.stage = "running"
    /\ call.output_path \in DOMAIN files
    /\ files[call.output_path] # bytes
    /\ files' = [files EXCEPT ![call.output_path] = bytes]
    /\ UNCHANGED <<pipeVars, orchVars, sigVars, temp_dir, dirs, mkdtemps, runVars, outcome,
                   cleaned, leaked, cleanups, observed>>

\* subprocess.run returns or raises, and execute_tool builds its result
ExecuteToolFinish ==
    LET name == call.tool.name
        command == call.command
        exists == call.output_path \in DOMAIN files
    IN
    /\ proc = "alive"
    /\ call.stage = "running"
    /\ UNCHANGED <<pipeVars, orchVars, sigVars, temp_dir, fsVars, cleaned, leaked, observed,
                   invoked, runs, spawns>>
    /\ \/ \E returncode \in ReturnCodes, stderr \in ChildStderr :
             /\ child' = [state |-> "exited", returncode |-> returncode, exists |-> exists]
             /\ Return(_create_success_result(name, command, returncode, stderr,
                                              call.output_path))
       \/ \E stderr \in ChildStderr :
             /\ child' = [state |-> "timeout", returncode |-> 0, exists |-> exists]
             /\ Return(_handle_timeout_error(name, command, stderr,
                                             call.output_path, exists))
       \/ /\ child' = [state |-> "failed", returncode |-> 0, exists |-> exists]
          /\ Return(_handle_unexpected_error(name, command))

\* a caller invokes execute_tool with one of the configured tools
ExecuteTool ==
    /\ ~batch.active
    /\ \E i \in DOMAIN external_tools : ExecuteToolStart(1, external_tools[i])

\* ---------------------------------------------------------- execute_all
ExecuteAllBegin ==
    /\ proc = "alive"
    /\ call.stage = "idle"
    /\ ~batch.active
    /\ cleanups' = 0
    /\ IF external_tools = <<>>
       THEN /\ allResults' = <<>>
            /\ outcome' = [op |-> "execute_all", raised |-> NoneStr, warned |-> FALSE]
            /\ UNCHANGED batch
       ELSE /\ batch' = [active |-> TRUE, results |-> <<>>]
            /\ outcome' = NoOutcome
            /\ allResults' = <<>>
    /\ lastResult' = NoResult
    /\ child' = NoChild
    /\ invoked' = NoTool
    /\ delivery' = NoDelivery
    /\ UNCHANGED <<pipeVars, orchVars, proc, temp_dir, fsVars, call, handles, runs, spawns,
                   cleaned, leaked, observed>>

\* a loop that may invoke the tool it has just run once more
ExecuteAllNext_again ==
    /\ batch.active
    /\ \E i \in {Len(batch.results), Len(batch.results) + 1} \cap DOMAIN external_tools :
          ExecuteToolStart(1, external_tools[i])

\* the loop of execute_all invokes execute_tool on the next configured tool
ExecuteAllNext ==
    /\ batch.active
    /\ ExecuteToolStart(1, external_tools[Len(batch.results) + 1])


\* -------------------------------------------------------------- cleanup
\* the handles whose directory a cleanup() of the orchestrators in os has
\* just gone through, or whose directory is gone anyway; before are the
\* temp_dir fields when the cleanup started
CleanedBy(os, before, after_dirs) ==
    {p \in handles : \/ p = NoPath
                     \/ /\ p # NoPath
                        /\ \/ \E o \in os : p[1] = before[o]
                           \/ p[1] \notin after_dirs}

\* a caller invokes cleanup() of orchestrator o between two other calls
Cleanup(o) ==
    /\ proc = "alive"
    /\ o <= constructed
    /\ call.stage = "idle"
    /\ ~batch.active
    /\ cleanups < MaxCleanups
    /\ cleanups' = cleanups + 1
    /\ \E fail \in BOOLEAN, kept \in SUBSET FilesIn(files, temp_dir[o]) :
          LET st == cleanup(FsState, o, fail, kept)
          IN  /\ fail \/ kept = {}
              /\ temp_dir' = st.temp_dir
              /\ dirs' = st.dirs
              /\ files' = st.files
              /\ outcome' = [op |-> "cleanup", raised |-> NoneStr, warned |-> st.warned]
              /\ cleaned' = cleaned \cup CleanedBy({o}, temp_dir, st.dirs)
              /\ leaked' = leaked \cup {p \in CleanedBy({o}, temp_dir, st.dirs) :
                                            p # NoPath /\ p[1] \in st.dirs}
    /\ lastResult' = NoResult
    /\ allResults' = <<>>
    /\ child' = NoChild
    /\ invoked' = NoTool
    /\ delivery' = NoDelivery
    /\ UNCHANGED <<pipeVars, orchVars, proc, mkdtemps, call, batch, handles, runs, spawns,
                   observed>>

\* ------------------------------------------------------ ToolResult.stdout
\* a holder of a result reads its stdout property
ReadStdout ==
    /\ call.stage = "idle"
    /\ \E output_path \in handles, oserror \in BOOLEAN :
          LET result == [NoResult EXCEPT !.output_path = output_path]
          IN  /\ oserror => output_path \in DOMAIN files
              /\ observed' = [path |-> output_path, val |-> stdout(result, oserror),
                              oserror |-> oserror]
    /\ UNCHANGED <<pipeVars, orchVars, sigVars, temp_dir, fsVars, runVars, outcome, cleaned,
                   leaked, cleanups>>

\* ----------------------------------------------------- the environment
\* something else removes a temporary directory with its files
EnvRemoveDir ==
    /\ \E d \in dirs :
          /\ dirs' = dirs \ {d}
          /\ files' = Restrict(files, DOMAIN files \ FilesIn(files, d))
    /\ cleanups' = 0
    /\ UNCHANGED <<pipeVars, orchVars, sigVars, temp_dir, mkdtemps, runVars, outcome, cleaned,
                   leaked, observed>>

\* something else removes an output file
EnvRemoveFile ==
    /\ \E p \in DOMAIN files : files' = Restrict(files, DOMAIN files \ {p})
    /\ cleanups' = 0
    /\ UNCHANGED <<pipeVars, orchVars, sigVars, temp_dir, dirs, mkdtemps, runVars, outcome,
                   cleaned, leaked, observed>>

\* something else rewrites an output file after the tool has finished
EnvWriteFile ==
    /\ call.stage = "idle"
    /\ \E p \in DOMAIN files, bytes \in Contents :
          /\ files[p] # bytes
          /\ files' = [files EXCEPT ![p] = bytes]
    /\ cleanups' = 0
    /\ UNCHANGED <<pipeVars, orchVars, sigVars, temp_dir, dirs, mkdtemps, runVars, outcome,
                   cleaned, leaked, observed>>

\* ------------------------------------------------------- specification
\* Spec: one orchestrator runs its tools, one by one or as a batch
Next ==
    \/ ExecuteTool
    \/ ExecuteAllBegin
    \/ ExecuteAllNext
    \/ \E bytes \in Contents : ChildWrite(bytes)
    \/ ExecuteToolFinish
    \/ EnvRemoveDir
    \/ EnvRemoveFile

Spec == Init /\ [][Next]_vars

\* SpecFiles: one orchestrator runs tools, cleans up, and the results are read
InitFiles ==
    /\ Init
    /\ Len(external_tools) \in 1..MaxReadTools
    /\ \A i \in DOMAIN external_tools : external_tools[i].command # Cmd_blank

\* a caller invokes execute_tool and keeps the result to read it
ExecuteToolRead ==
    /\ runs < MaxReadRuns
    /\ ExecuteTool

NextFiles ==
    \/ ExecuteToolRead
    \/ \E bytes \in Contents : ChildWrite(bytes)
    \/ ExecuteToolFinish
    \/ Cleanup(1)
    \/ ReadStdout
    \/ EnvRemoveDir
    \/ EnvRemoveFile
    \/ EnvWriteFile

SpecFiles == InitFiles /\ [][NextFiles]_vars


\* ------------------------------------------------------------- signals
\* _setup_cleanup_handlers that saves the SIGINT handler for both signals
_setup_cleanup_handlers_one_saved(st, o) ==
    [st EXCEPT !.original_sigint_handler[o] = st.handlers[SIGINT],
               !.original_sigterm_handler[o] = st.handlers[SIGINT],
               !.handlers = [s \in Sigs |-> BoundHandler(o)]]

\* ToolOrchestrator.__init__ then _setup_cleanup_handlers, on
\* st = [handlers, original_sigint_handler, original_sigterm_handler]:
\* the installed handlers are saved, then replaced by the orchestrator's
_setup_cleanup_handlers(st, o) ==
    [st EXCEPT !.original_sigint_handler[o] = st.handlers[SIGINT],
               !.original_sigterm_handler[o] = st.handlers[SIGTERM],
               !.handlers = [s \in Sigs |-> BoundHandler(o)]]

Construct ==
    /\ proc = "alive"
    /\ call.stage = "idle"
    /\ constructed < MaxOrch
    /\ LET o == constructed + 1
           st == _setup_cleanup_handlers(
                    [handlers |-> handlers,
                     original_sigint_handler |-> original_sigint_handler,
                     original_sigterm_handler |-> original_sigterm_handler], o)
       IN  /\ constructed' = o
           /\ temp_dir' = [temp_dir EXCEPT ![o] = NoDir]
           /\ handlers' = st.handlers
           /\ original_sigint_handler' = st.original_sigint_handler
           /\ original_sigterm_handler' = st.original_sigterm_handler
    /\ delivery' = NoDelivery
    /\ UNCHANGED <<pipeVars, external_tools, prior, proc, fsVars, runVars, outcome, cleaned,
                   leaked, cleanups, observed>>

\* The process state a handler acts on is st = [temp_dir, dirs, files, warned,
\* handlers, proc, log]; failing are the orchestrators whose rmtree fails and
\* keptFiles the files such a removal leaves.
RECURSIVE call_handler(_, _, _, _, _, _)

\* signal.raise_signal(signum) under the disposition installed in st
raise_signal(signum, frame, st, failing, keptFiles) ==
    LET h == st.handlers[signum]
    IN  IF h = SIG_DFL
        THEN [st EXCEPT !.proc = "killed",
                        !.log = Append(@, Event("SIG_DFL", 0, signum, ""))]
        ELSE IF h = SIG_IGN THEN st
        ELSE call_handler(h, signum, frame, st, failing, keptFiles)

\* a handler that hands over to the original handler first and cleans up
\* when that call returns
_signal_handler_cleanup_last(o, signum, frame, st, failing, keptFiles) ==
    LET original_handler ==
            IF signum = SIGINT THEN original_sigint_handler[o]
            ELSE original_sigterm_handler[o]
        handed ==
            IF callable(original_handler)
            THEN call_handler(original_handler, signum, frame, st, failing, keptFiles)
            ELSE IF original_handler = SIG_DFL
            THEN raise_signal(signum, frame, [st EXCEPT !.handlers[signum] = SIG_DFL],
                              failing, keptFiles)
            ELSE st
    IN  IF handed.proc # "alive" THEN handed
        ELSE [cleanup(handed, o, o \in failing,
                      keptFiles \cap FilesIn(handed.files, handed.temp_dir[o]))
                 EXCEPT !.log = Append(@, Event("cleanup", o, 0, ""))]

\* ToolOrchestrator._signal_handler(self, signum, frame), self being o
_signal_handler(o, signum, frame, st, failing, keptFiles) ==
    LET cleaned_up ==
            [cleanup(st, o, o \in failing,
                     keptFiles \cap FilesIn(st.files, st.temp_dir[o]))
                EXCEPT !.log = Append(@, Event("cleanup", o, 0, ""))]
        original_handler ==
            IF signum = SIGINT THEN original_sigint_handler[o]
            ELSE original_sigterm_handler[o]
    IN  IF callable(original_handler)
        THEN call_handler(original_handler, signum, frame, cleaned_up, failing, keptFiles)
        ELSE IF original_handler = SIG_DFL
        THEN raise_signal(signum, frame,
                          [cleaned_up EXCEPT !.handlers[signum] = SIG_DFL],
                          failing, keptFiles)
        ELSE cleaned_up

\* the interpreter calls the callable h with (signum, frame)
call_handler(h, signum, frame, st, failing, keptFiles) ==
    IF h.kind = "orchestrator"
    THEN _signal_handler(h.id, signum, frame, st, failing, keptFiles)
    ELSE IF h.kind = "default_int_handler"
    THEN [st EXCEPT !.proc = "KeyboardInterrupt",
                    !.log = Append(@, Event("call", h.id, signum, frame))]
    ELSE [st EXCEPT !.log = Append(@, Event("call", h.id, signum, frame))]

ProcState ==
    [temp_dir |-> temp_dir, dirs |-> dirs, files |-> files, warned |-> FALSE,
     handlers |-> handlers, proc |-> proc, log |-> <<>>]

\* the signal signum arrives while the main thread is at frame
Deliver(signum, frame) ==
    /\ proc = "alive"
    /\ \E failing \in SUBSET {o \in 1..constructed : temp_dir[o] \in dirs} :
       \E keptFiles \in SUBSET {p \in DOMAIN files : \E o \in failing : p[1] = temp_dir[o]} :
       \E st \in {raise_signal(signum, frame, ProcState, failing, keptFiles)} :
              /\ temp_dir' = st.temp_dir
              /\ dirs' = st.dirs
              /\ files' = st.files
              /\ handlers' = st.handlers
              /\ proc' = st.proc
              /\ delivery' = [sig |-> signum, frame |-> frame, log |-> st.log,
                              orchestrators |-> constructed]
              /\ LET ran == {o \in Orchs : \E k \in 1..Len(st.log) :
                                 st.log[k] = Event("cleanup", o, 0, "")}
                 IN  /\ cleaned' = cleaned \cup CleanedBy(ran, temp_dir, st.dirs)
                     /\ leaked' = leaked \cup {p \in CleanedBy(ran, temp_dir, st.dirs) :
                                                   p # NoPath /\ p[1] \in st.dirs}
    /\ cleanups' = 0
    /\ UNCHANGED <<pipeVars, external_tools, constructed, original_sigint_handler,
                   original_sigterm_handler, prior, mkdtemps, runVars, outcome,
                   observed>>

\* a caller invokes execute_tool of one of the orchestrators
ExecuteToolOf(o) ==
    /\ o <= constructed
    /\ runs < MaxSigRuns
    /\ ExecuteToolStart(o, [name |-> ToolNames[1], command |-> Cmd_ls])

\* ======================================================= execution claims
Failed(result) == ~result.success
GenericError(result) == ~result.timed_out /\ ~result.tool_not_found

\* the executable is an existing absolute path or is on the search path
Resolvable(executable) ==
    IF IsAbsolute(executable) THEN executable \in ExistingPaths
    ELSE executable \in PathExecutables

\* execute_all returned a list holding one result per configured tool, in order
OnePerTool ==
    /\ outcome.raised = NoneStr
    /\ Len(allResults) = Len(external_tools)
    /\ \A i \in DOMAIN allResults : allResults[i].name = external_tools[i].name

\* C1: whenever execute_all has ended it has returned exactly one result per
\* configured tool, in configured order, whatever the outcome of each tool
C1_OneResultPerTool == outcome.op = "execute_all" => OnePerTool

\* C1, as far as the code goes: a list that execute_all returns holds one
\* result per configured tool, in configured order, and a middle tool whose
\* executable is missing is the only one marked tool_not_found
C1_WhenReturned ==
    (outcome.op = "execute_all" /\ outcome.raised = NoneStr) =>
        /\ OnePerTool
        /\ \A i \in DOMAIN allResults :
              allResults[i].tool_not_found <=>
                  ~Resolvable(Executable(external_tools[i].command))

\* C2: no failure inside an invocation is raised: neither execute_tool nor
\* execute_all ever ends with an exception
C2_NeverRaises == outcome.raised = NoneStr

\* the classification invariant of one result
Classified(result) ==
    /\ result.success =>
          /\ ~result.timed_out
          /\ ~result.tool_not_found
          /\ result.error_message = NoneStr
    /\ Failed(result) =>
          /\ result.exit_code = -1
          /\ result.error_message # NoneStr
          /\ ~(result.timed_out /\ result.tool_not_found)

\* C3: every result execute_tool returns is classified: a success carries no
\* failure flag and no error message, a failure has exit_code -1, an error
\* message and at most one of timed_out and tool_not_found
C3_Classification ==
    /\ lastResult # NoResult => Classified(lastResult)
    /\ \A i \in DOMAIN batch.results : Classified(batch.results[i])
    /\ \A i \in DOMAIN allResults : Classified(allResults[i])

C3_Witness ==
    /\ Len(allResults) = 3
    /\ allResults[1].timed_out
    /\ allResults[2].tool_not_found
    /\ Failed(allResults[3]) /\ GenericError(allResults[3])

\* C4: an invocation whose executable cannot be resolved returns at once a
\* tool_not_found result with exit_code -1 and no output handle, and it
\* spawns nothing and leaves temp_dir, the directories and the files as they were
C4_NotFound ==
    [][(/\ runs' = runs + 1
        /\ ~SplitRaises(invoked'.command)
        /\ ~Resolvable(Executable(invoked'.command)))
       => /\ call'.stage = "idle"
          /\ outcome'.raised = NoneStr
          /\ lastResult'.tool_not_found
          /\ Failed(lastResult')
          /\ lastResult'.exit_code = -1
          /\ lastResult'.output_path = NoPath
          /\ lastResult'.name = invoked'.name
          /\ spawns' = spawns
          /\ temp_dir' = temp_dir
          /\ dirs' = dirs
          /\ files' = files
          /\ mkdtemps' = mkdtemps]_vars

C4_Witness ==
    /\ lastResult.tool_not_found
    /\ temp_dir[1] # NoDir
    /\ spawns > 0

\* C5: when the child was launched and has exited, the result is a success
\* whose exit_code is the child's return code, zero or not
C5_Completed ==
    child.state = "exited" =>
        /\ lastResult.success
        /\ lastResult.exit_code = child.returncode
        /\ lastResult.name = invoked.name

C5_Witness == child.state = "exited" /\ child.returncode # 0 /\ lastResult.success

\* C6: when the child runs into its timeout the result is timed_out, failed,
\* with exit_code -1, it keeps the output handle exactly when the file
\* exists at that moment, and the handling removes no file
C6_Timeout ==
    [][(child.state = "running" /\ child'.state = "timeout")
       => /\ lastResult'.timed_out
          /\ Failed(lastResult')
          /\ lastResult'.exit_code = -1
          /\ lastResult'.output_path =
                (IF call.output_path \in DOMAIN files THEN call.output_path ELSE NoPath)
          /\ files' = files
          /\ dirs' = dirs]_vars

C6_Witness ==
    \E i, j \in DOMAIN allResults :
        /\ allResults[i].timed_out /\ allResults[i].output_path # NoPath
        /\ allResults[j].timed_out /\ allResults[j].output_path = NoPath


\* ========================================================= cleanup claims
NoOp == temp_dir' = temp_dir /\ dirs' = dirs /\ files' = files

\* C7: consecutive cleanup() calls never raise, the first leaves temp_dir None
\* and the directory removed, every later one changes nothing
C7_CleanupIdempotent ==
    [][cleanups' = cleanups + 1
       => /\ outcome'.raised = NoneStr
          /\ cleanups = 0 =>
                /\ temp_dir'[1] = NoDir
                /\ temp_dir[1] # NoDir => temp_dir[1] \notin dirs'
          /\ cleanups >= 1 => NoOp]_vars

\* C7 as amended: consecutive cleanup() calls never raise; a call that finds
\* temp_dir naming an existing directory clears temp_dir and removes the
\* directory with its files unless the removal fails, which it logs; a call
\* that finds temp_dir None or naming a directory that is gone changes
\* nothing; every call after the first changes nothing
C7_CleanupAmended ==
    [][cleanups' = cleanups + 1
       => /\ outcome'.raised = NoneStr
          /\ IF temp_dir[1] # NoDir /\ temp_dir[1] \in dirs
             THEN /\ temp_dir'[1] = NoDir
                  /\ \/ outcome'.warned
                     \/ /\ temp_dir[1] \notin dirs'
                        /\ FilesIn(files', temp_dir[1]) = {}
             ELSE NoOp /\ ~outcome'.warned
          /\ cleanups >= 1 => NoOp]_vars

C7_Witness ==
    /\ cleanups >= 3
    /\ outcome.op = "cleanup"
    /\ temp_dir[1] = NoDir
    /\ mkdtemps > 0
    /\ dirs = {}
    /\ \E p \in handles : p # NoPath

\* ---------------------------------------------------------- stdout claims
ResultAt(output_path) == [NoResult EXCEPT !.output_path = output_path]

\* the text in the file at output_path, empty without a handle or a file
CurrentText(output_path) ==
    IF output_path # NoPath /\ output_path \in DOMAIN files
    THEN Decode(files[output_path])
    ELSE <<>>

InitSignal ==
    /\ InitRun
    /\ external_tools = <<>>
    /\ constructed = 0
    /\ prior \in [Sigs -> PriorHandlers]
    /\ handlers = prior
    /\ original_sigint_handler = [o \in Orchs |-> NoHandler]
    /\ original_sigterm_handler = [o \in Orchs |-> NoHandler]

NextSignal ==
    \/ Construct
    \/ \E o \in Orchs : ExecuteToolOf(o)
    \/ ExecuteToolFinish
    \/ \E signum \in Sigs, frame \in Frames : Deliver(signum, frame)

SpecSignal == InitSignal /\ [][NextSignal]_vars

\* what handing the signal over to the handler h consists of: a callable is
\* called once with (signum, frame), the default disposition is taken, an
\* ignored signal has no effect
HandOver(h, signum, frame) ==
    IF callable(h) THEN <<Event("call", h.id, signum, frame)>>
    ELSE IF h = SIG_DFL THEN <<Event("SIG_DFL", 0, signum, "")>>
    ELSE <<>>

\* what the signal does to a process in which h is installed and no
\* orchestrator exists
WithoutOrchestrator(h) ==
    IF h = SIG_DFL THEN "killed"
    ELSE IF h = default_int_handler THEN "KeyboardInterrupt"
    ELSE "alive"

\* cleanup of On, ..., O1 in that order
CleanupsDown(n) == [k \in 1..n |-> Event("cleanup", n + 1 - k, 0, "")]

DQ == "\""
SQ == "'"
BS == "\\"
TAB == "\t"
NL == "\n"

\* shlex.whitespace, and the characters str.strip() removes
Whitespace == {SP, TAB, NL, "\r"}

\* str.strip()
Strip(s) ==
    LET kept == {i \in DOMAIN s : s[i] \notin Whitespace}
    IN  IF kept = {} THEN <<>>
        ELSE SubSeq(s, CHOOSE i \in kept : \A j \in 1..(i - 1) : s[j] \in Whitespace,
                       CHOOSE i \in kept : \A j \in (i + 1)..Len(s) : s[j] \in Whitespace)

\* str.split("\n"): the stretches between consecutive line feeds
SplitLines(s) ==
    LET feeds == {i \in DOMAIN s : s[i] = NL}
        feed(k) == IF k = 0 THEN 0
                   ELSE IF k > Cardinality(feeds) THEN Len(s) + 1
                   ELSE CHOOSE i \in feeds : Cardinality({j \in feeds : j < i}) = k - 1
    IN  [k \in 1..(Cardinality(feeds) + 1) |-> SubSeq(s, feed(k - 1) + 1, feed(k) - 1)]

\* one character of shlex in POSIX mode with whitespace_split.
\* lx = [state, token, parts]; state is "ws" between tokens, "word" in a
\* token outside quotes, "dq" / "sq" inside quotes, "esc" / "dqesc" after a
\* backslash
LexStep(lx, c) ==
    CASE lx.state = "ws" ->
            IF c \in Whitespace THEN lx
            ELSE IF c = BS THEN [lx EXCEPT !.state = "esc"]
            ELSE IF c = DQ THEN [lx EXCEPT !.state = "dq"]
            ELSE IF c = SQ THEN [lx EXCEPT !.state = "sq"]
            ELSE [lx EXCEPT !.state = "word", !.token = <<c>>]
      [] lx.state = "word" ->
            IF c \in Whitespace
            THEN [state |-> "ws", token |-> <<>>, parts |-> Append(lx.parts, lx.token)]
            ELSE IF c = BS THEN [lx EXCEPT !.state = "esc"]
            ELSE IF c = DQ THEN [lx EXCEPT !.state = "dq"]
            ELSE IF c = SQ THEN [lx EXCEPT !.state = "sq"]
            ELSE [lx EXCEPT !.token = Append(@, c)]
      [] lx.state = "dq" ->
            IF c = DQ THEN [lx EXCEPT !.state = "word"]
            ELSE IF c = BS THEN [lx EXCEPT !.state = "dqesc"]
            ELSE [lx EXCEPT !.token = Append(@, c)]
      [] lx.state = "sq" ->
            IF c = SQ THEN [lx EXCEPT !.state = "word"]
            ELSE [lx EXCEPT !.token = Append(@, c)]
      [] lx.state = "esc" ->
            [lx EXCEPT !.state = "word", !.token = Append(@, c)]
      [] lx.state = "dqesc" ->
            IF c = DQ \/ c = BS
            THEN [lx EXCEPT !.state = "dq", !.token = Append(@, c)]
            ELSE [lx EXCEPT !.state = "dq", !.token = @ \o <<BS, c>>]

\* the lexer run over s from character i on; a stretch of characters that
\* the state treats alike (whitespace between tokens, plain characters in a
\* token or inside quotes) is taken in one step
RECURSIVE Lex(_, _, _)
Lex(lx, s, i) ==
    IF i > Len(s) THEN lx
    ELSE LET alike(c) == CASE lx.state = "ws" -> c \in Whitespace
                           [] lx.state = "word" -> c \notin Whitespace \cup {BS, DQ, SQ}
                           [] lx.state = "dq" -> c \notin {BS, DQ}
                           [] lx.state = "sq" -> c # SQ
                           [] OTHER -> FALSE
             ends == {j \in i..Len(s) : ~alike(s[j])} \cup {Len(s) + 1}
             j == CHOOSE e \in ends : \A f \in ends : e <= f
         IN  IF j = i THEN Lex(LexStep(lx, s[i]), s, i + 1)
             ELSE IF lx.state = "ws" THEN Lex(lx, s, j)
             ELSE Lex([lx EXCEPT !.token = @ \o SubSeq(s, i, j - 1)], s, j)

\* shlex.split(s): [error, parts]; error stands for the ValueErrors "No
\* closing quotation" and "No escaped character"
shlex_split(s) ==
    LET lx == Lex([state |-> "ws", token |-> <<>>, parts |-> <<>>], s, 1)
    IN  IF lx.state \in {"dq", "sq", "esc", "dqesc"}
        THEN [error |-> TRUE, parts |-> <<>>]
        ELSE IF lx.state = "word"
        THEN [error |-> FALSE, parts |-> Append(lx.parts, lx.token)]
        ELSE [error |-> FALSE, parts |-> lx.parts]

DigitValue ==
    [c \in {"0", "1", "2", "3", "4", "5", "6", "7", "8", "9"} |->
        CASE c = "0" -> 0 [] c = "1" -> 1 [] c = "2" -> 2 [] c = "3" -> 3 [] c = "4" -> 4
          [] c = "5" -> 5 [] c = "6" -> 6 [] c = "7" -> 7 [] c = "8" -> 8 [] c = "9" -> 9]

\* whether int(value) returns: surrounding whitespace, an optional sign,
\* decimal digits with single underscores between them
IsInt(value) ==
    LET t == Strip(value)
        d == IF t # <<>> /\ Head(t) \in {"+", "-"} THEN Tail(t) ELSE t
    IN  /\ d # <<>>
        /\ \A i \in DOMAIN d : d[i] \in DOMAIN DigitValue \/ d[i] = "_"
        /\ d[1] # "_" /\ d[Len(d)] # "_"
        /\ \A i \in 1..(Len(d) - 1) : ~(d[i] = "_" /\ d[i + 1] = "_")

\* the value of the digits of s after acc
RECURSIVE DigitsValue(_, _)
DigitsValue(s, acc) ==
    IF s = <<>> THEN acc
    ELSE IF Head(s) \in DOMAIN DigitValue
    THEN DigitsValue(Tail(s), 10 * acc + DigitValue[Head(s)])
    ELSE DigitsValue(Tail(s), acc)

\* int(value), where IsInt(value)
int(value) ==
    IF Head(Strip(value)) = "-" THEN 0 - DigitsValue(Strip(value), 0)
    ELSE DigitsValue(Strip(value), 0)

\* ------------------------------------------------------- _parse_command
\* the words _parse_command and _extract_commands compare with
W ==
    [sugar |-> <<"s", "u", "g", "a", "r">>,
     add |-> <<"a", "d", "d">>,
     urgent |-> <<"u", "r", "g", "e", "n", "t">>,
     type |-> <<"t", "y", "p", "e">>,
     priority |-> <<"p", "r", "i", "o", "r", "i", "t", "y">>,
     description |-> <<"d", "e", "s", "c", "r", "i", "p", "t", "i", "o", "n">>,
     status |-> <<"s", "t", "a", "t", "u", "s">>,
     pending |-> <<"p", "e", "n", "d", "i", "n", "g">>,
     hold |-> <<"h", "o", "l", "d">>,
     refactor |-> <<"r", "e", "f", "a", "c", "t", "o", "r">>,
     fix_issues |-> <<"F", "i", "x", SP, "i", "s", "s", "u", "e", "s", SP, "f", "o", "u", "n", "d", SP, "b", "y", SP>>,
     dashes |-> <<"-", "-">>,
     external_tools |-> <<"e", "x", "t", "e", "r", "n", "a", "l", "_", "t", "o", "o", "l", "s">>,
     external_tool |-> <<"e", "x", "t", "e", "r", "n", "a", "l", "_", "t", "o", "o", "l", ":">>,
     discover |-> <<"d", "i", "s", "c", "o", "v", "e", "r", ":">>,
     sugar_add |-> <<"s", "u", "g", "a", "r", SP, "a", "d", "d", SP>>]

\* a failure recorded without its reason
Invalid_silent(p, validation_error) == [p EXCEPT !.valid = FALSE]

\* parsed.valid = False with parsed.validation_error set
Invalid(p, validation_error) == [p EXCEPT !.valid = FALSE, !.validation_error = validation_error]

\* --urgent as a flag that also forces the priority to the maximum
urgent_option_forcing(p) == [p EXCEPT !.urgent = TRUE, !.priority = 5]

\* --urgent
urgent_option(p) == [p EXCEPT !.urgent = TRUE]

\* an unknown option that fails the parse
unknown_option_rejected(acc) == [acc EXCEPT !.parsed = Invalid(@, "Unknown option")]

\* "Unknown option, skip": the parse goes on as it was
unknown_option(acc) == acc

\* the checks after the loop without the test for a missing or empty title
title_check_lenient(acc) == [acc.parsed EXCEPT !.title = acc.title]

\* the checks after the loop
title_check(acc) ==
    IF ~acc.hasTitle \/ acc.title = <<>>
    THEN Invalid(acc.parsed, "Command must have a title")
    ELSE [acc.parsed EXCEPT !.title = acc.title]

\* the while loop of _parse_command from token i on; acc = [parsed, title,
\* hasTitle], title being None until the first positional token
RECURSIVE ParseTokens(_, _, _)
ParseTokens(parts, i, acc) ==
    IF i > Len(parts) THEN title_check(acc)
    ELSE IF StartsWith(parts[i], W.dashes)
    THEN LET option == SubSeq(parts[i], 3, Len(parts[i]))
         IN  IF option = W.urgent
             THEN ParseTokens(parts, i + 1, [acc EXCEPT !.parsed = urgent_option(@)])
             ELSE IF option \in {W.type, W.priority, W.description, W.status}
             THEN IF i + 1 > Len(parts)
                  THEN Invalid(acc.parsed, "Option requires a value")
                  ELSE LET value == parts[i + 1]
                       IN  IF option = W.type
                           THEN ParseTokens(parts, i + 2, [acc EXCEPT !.parsed.task_type = value])
                           ELSE IF option = W.priority
                           THEN IF IsInt(value)
                                THEN ParseTokens(parts, i + 2,
                                                 [acc EXCEPT !.parsed.priority = int(value)])
                                ELSE Invalid(acc.parsed, "Priority must be an integer")
                           ELSE IF option = W.description
                           THEN ParseTokens(parts, i + 2,
                                            [acc EXCEPT !.parsed.description = value])
                           ELSE IF value \in {W.pending, W.hold}
                           THEN ParseTokens(parts, i + 2, [acc EXCEPT !.parsed.status = value])
                           ELSE Invalid(acc.parsed, "Status must be 'pending' or 'hold'")
             ELSE ParseTokens(parts, i + 1, unknown_option(acc))
    ELSE IF acc.hasTitle THEN ParseTokens(parts, i + 1, acc)
    ELSE ParseTokens(parts, i + 1, [acc EXCEPT !.title = parts[i], !.hasTitle = TRUE])

\* ToolOutputInterpreter._parse_command
_parse_command(command_line) ==
    LET start == ParsedCommand(<<>>, command_line)
        split == shlex_split(command_line)
        parts == split.parts
    IN  IF split.error THEN Invalid(start, "Failed to parse command")
        ELSE IF Len(parts) < 3 \/ parts[1] # W.sugar \/ parts[2] # W.add
        THEN Invalid(start, "Command must start with 'sugar add'")
        ELSE ParseTokens(parts, 3, [parsed |-> start, title |-> <<>>, hasTitle |-> FALSE])

\* the body of the loop without line.strip()
scan_line_unstripped(line) ==
    IF line # <<>> /\ StartsWith(line, W.sugar_add) /\ _parse_command(line).valid
    THEN <<_parse_command(line)>>
    ELSE <<>>

\* the body of the loop of _extract_commands: what one line adds to commands
scan_line(line) ==
    LET stripped == Strip(line)
    IN  IF stripped # <<>> /\ StartsWith(stripped, W.sugar_add) /\ _parse_command(stripped).valid
        THEN <<_parse_command(stripped)>>
        ELSE <<>>

RECURSIVE Concat(_)
Concat(ss) == IF ss = <<>> THEN <<>> ELSE Head(ss) \o Concat(Tail(ss))

\* ToolOutputInterpreter._extract_commands
_extract_commands(text) ==
    Concat([k \in DOMAIN SplitLines(text) |-> scan_line(SplitLines(text)[k])])

\* ----------------------------------------------- the lines under interpretation
\* A line is assembled from what its writer meant: leading whitespace, the
\* verbs, a title and options, each with the text written and the shell
\* words that text stands for; MaxOptions options at most, MaxLines lines
MaxOptions == 2
MaxLines == 3

Verbs ==
    [plain |-> [text |-> <<"s", "u", "g", "a", "r", SP, "a", "d", "d">>, tokens |-> <<<<"s", "u", "g", "a", "r">>, <<"a", "d", "d">>>>],
     spaces |-> [text |-> <<"s", "u", "g", "a", "r", SP, SP, "a", "d", "d">>, tokens |-> <<<<"s", "u", "g", "a", "r">>, <<"a", "d", "d">>>>],
     tab |-> [text |-> <<"s", "u", "g", "a", "r", TAB, "a", "d", "d">>, tokens |-> <<<<"s", "u", "g", "a", "r">>, <<"a", "d", "d">>>>],
     capital |-> [text |-> <<"S", "u", "g", "a", "r", SP, "a", "d", "d">>, tokens |-> <<<<"S", "u", "g", "a", "r">>, <<"a", "d", "d">>>>],
     prose |-> [text |-> <<"n", "o", "t", "e">>, tokens |-> <<<<"n", "o", "t", "e">>>>],
     blank |-> [text |-> <<>>, tokens |-> <<>>]]

Titles ==
    [quoted |-> [text |-> <<DQ, "T", DQ>>, tokens |-> <<<<"T">>>>, closed |-> TRUE],
     bare |-> [text |-> <<"T">>, tokens |-> <<<<"T">>>>, closed |-> TRUE],
     words |-> [text |-> <<DQ, "a", SP, "b", DQ>>, tokens |-> <<<<"a", SP, "b">>>>, closed |-> TRUE],
     escaped |-> [text |-> <<DQ, "a", BS, DQ, "b", DQ>>, tokens |-> <<<<"a", DQ, "b">>>>, closed |-> TRUE],
     empty |-> [text |-> <<DQ, DQ>>, tokens |-> <<<<>>>>, closed |-> TRUE],
     none |-> [text |-> <<>>, tokens |-> <<>>, closed |-> TRUE],
     unclosed |-> [text |-> <<DQ, "T">>, tokens |-> <<>>, closed |-> FALSE]]

Options ==
    [urgent |-> [text |-> <<"-", "-", "u", "r", "g", "e", "n", "t">>, tokens |-> <<<<"-", "-", "u", "r", "g", "e", "n", "t">>>>],
     priority_1 |-> [text |-> <<"-", "-", "p", "r", "i", "o", "r", "i", "t", "y", SP, "1">>, tokens |-> <<<<"-", "-", "p", "r", "i", "o", "r", "i", "t", "y">>, <<"1">>>>],
     priority_9 |-> [text |-> <<"-", "-", "p", "r", "i", "o", "r", "i", "t", "y", SP, "9">>, tokens |-> <<<<"-", "-", "p", "r", "i", "o", "r", "i", "t", "y">>, <<"9">>>>],
     priority_abc |-> [text |-> <<"-", "-", "p", "r", "i", "o", "r", "i", "t", "y", SP, "a", "b", "c">>, tokens |-> <<<<"-", "-", "p", "r", "i", "o", "r", "i", "t", "y">>, <<"a", "b", "c">>>>],
     priority_novalue |-> [text |-> <<"-", "-", "p", "r", "i", "o", "r", "i", "t", "y">>, tokens |-> <<<<"-", "-", "p", "r", "i", "o", "r", "i", "t", "y">>>>],
     priority_equals |-> [text |-> <<"-", "-", "p", "r", "i", "o", "r", "i", "t", "y", "=", "2">>, tokens |-> <<<<"-", "-", "p", "r", "i", "o", "r", "i", "t", "y", "=", "2">>>>],
     status_hold |-> [text |-> <<"-", "-", "s", "t", "a", "t", "u", "s", SP, "h", "o", "l", "d">>, tokens |-> <<<<"-", "-", "s", "t", "a", "t", "u", "s">>, <<"h", "o", "l", "d">>>>],
     status_bad |-> [text |-> <<"-", "-", "s", "t", "a", "t", "u", "s", SP, "b", "a", "d">>, tokens |-> <<<<"-", "-", "s", "t", "a", "t", "u", "s">>, <<"b", "a", "d">>>>],
     type_feature |-> [text |-> <<"-", "-", "t", "y", "p", "e", SP, "f", "e", "a", "t", "u", "r", "e">>, tokens |-> <<<<"-", "-", "t", "y", "p", "e">>, <<"f", "e", "a", "t", "u", "r", "e">>>>],
     description |-> [text |-> <<"-", "-", "d", "e", "s", "c", "r", "i", "p", "t", "i", "o", "n", SP, DQ, "d", SP, "e", DQ>>, tokens |-> <<<<"-", "-", "d", "e", "s", "c", "r", "i", "p", "t", "i", "o", "n">>, <<"d", SP, "e">>>>],
     description_novalue |-> [text |-> <<"-", "-", "d", "e", "s", "c", "r", "i", "p", "t", "i", "o", "n">>, tokens |-> <<<<"-", "-", "d", "e", "s", "c", "r", "i", "p", "t", "i", "o", "n">>>>],
     unknown |-> [text |-> <<"-", "-", "f", "o", "o">>, tokens |-> <<<<"-", "-", "f", "o", "o">>>>],
     positional |-> [text |-> <<"X">>, tokens |-> <<<<"X">>>>]]

Range(f) == {f[x] : x \in DOMAIN f}

\* the decimal integers among the values written
IntValue == [tok \in {<<"1">>, <<"9">>} |-> IF tok = <<"1">> THEN 1 ELSE 9]

Line(lead, verbs, title, options) ==
    [lead |-> lead, verbs |-> verbs, title |-> title, options |-> options]

\* the single lines handed to _parse_command
Shapes ==
    {Line(<<>>, v, t, os) :
        v \in {Verbs.plain, Verbs.spaces, Verbs.tab, Verbs.capital},
        t \in Range(Titles),
        os \in UNION {[1..n -> Range(Options)] : n \in 0..MaxOptions}}

\* the lines of a longer text
ScanShapes ==
    {Line(<<>>, Verbs.blank, Titles.none, <<>>),
     Line(<<>>, Verbs.prose, Titles.none, <<>>),
     Line(<<>>, Verbs.plain, Titles.quoted, <<>>),
     Line(<<SP, SP>>, Verbs.plain, Titles.words, <<Options.urgent>>),
     Line(<<>>, Verbs.spaces, Titles.quoted, <<>>),
     Line(<<>>, Verbs.tab, Titles.bare, <<>>),
     Line(<<>>, Verbs.plain, Titles.unclosed, <<>>),
     Line(<<>>, Verbs.plain, Titles.quoted, <<Options.priority_abc>>),
     Line(<<>>, Verbs.plain, Titles.none, <<>>),
     Line(<<>>, Verbs.capital, Titles.quoted, <<>>)}

Texts ==
    {<<sh>> : sh \in Shapes} \cup UNION {[1..n -> ScanShapes] : n \in 2..MaxLines}

\* the text of a line: its pieces with one space between them
Render(sh) ==
    sh.lead \o sh.verbs.text
        \o (IF sh.title.text = <<>> THEN <<>> ELSE <<SP>> \o sh.title.text)
        \o Concat([k \in DOMAIN sh.options |-> <<SP>> \o sh.options[k].text])

\* the text of some lines: one line feed between them
RenderText(shs) ==
    Concat([k \in DOMAIN shs |-> IF k = 1 THEN Render(shs[k]) ELSE <<NL>> \o Render(shs[k])])

\* the shell words a line stands for
Tokens(sh) ==
    sh.verbs.tokens \o sh.title.tokens \o Concat([k \in DOMAIN sh.options |-> sh.options[k].tokens])

toolVars == <<orchVars, sigVars, fsVars, runVars, temp_dir, outcome, cleaned, leaked,
              cleanups, observed, cfgVars, jsonVars, loopVars>>

\* a caller hands the line to _parse_command
ParseCommand ==
    /\ Len(pieces) = 1
    /\ "_parse_command" \notin called
    /\ parsed' = _parse_command(response)
    /\ called' = called \cup {"_parse_command"}
    /\ UNCHANGED <<toolVars, pieces, response, commands, discovery, log>>

\* a caller hands the text to _extract_commands
ExtractCommands ==
    /\ "_extract_commands" \notin called
    /\ commands' = _extract_commands(response)
    /\ called' = called \cup {"_extract_commands"}
    /\ UNCHANGED <<toolVars, pieces, response, parsed, discovery, log>>

\* str(n) of an integer
RECURSIVE str(_)
str(n) ==
    IF n < 0 THEN <<"-">> \o str(0 - n)
    ELSE IF n < 10 THEN <<CHOOSE c \in DOMAIN DigitValue : DigitValue[c] = n>>
    ELSE str(n \div 10) \o str(n % 10)

\* the argument list execute_commands builds for cmd
args(cmd) ==
    <<W.sugar, W.add, cmd.title>>
    \o (IF cmd.task_type # <<>> THEN <<W.dashes \o W.type, cmd.task_type>> ELSE <<>>)
    \o (IF cmd.priority # 0 THEN <<W.dashes \o W.priority, str(cmd.priority)>> ELSE <<>>)
    \o (IF cmd.description # <<>> THEN <<W.dashes \o W.description, cmd.description>> ELSE <<>>)
    \o (IF cmd.urgent THEN <<W.dashes \o W.urgent>> ELSE <<>>)
    \o (IF cmd.status # <<>> /\ cmd.status # W.pending
        THEN <<W.dashes \o W.status, cmd.status>> ELSE <<>>)

\* execute_commands: the argument lists handed to subprocess.run, one for
\* each valid command unless dry_run; the count it returns depends on how
\* the subprocesses end
execute_commands(cmds, dry_run) ==
    IF dry_run THEN <<>>
    ELSE [k \in DOMAIN SelectSeq(cmds, LAMBDA cmd : cmd.valid) |->
            args(SelectSeq(cmds, LAMBDA cmd : cmd.valid)[k])]

\* interpret_and_execute hands the commands extracted to execute_commands
ExecuteCommands(dry_run) ==
    /\ "_extract_commands" \in called
    /\ "execute_commands" \notin called
    /\ executed' = executed \o execute_commands(commands, dry_run)
    /\ called' = called \cup {"execute_commands"}
    /\ UNCHANGED <<orchVars, sigVars, fsVars, runVars, temp_dir, outcome, cleaned, leaked,
                   cleanups, observed, cfgVars, json, answers, pieces, response, parsed,
                   commands, discovery, log, loopVars>>

\* the interpreter's text is any of the texts
InitParse ==
    /\ RunIdle
    /\ JsonIdle
    /\ CfgIdle
    /\ external_tools = <<>>
    /\ constructed = 0
    /\ prior = PythonDefaults
    /\ handlers = prior
    /\ original_sigint_handler = [o \in Orchs |-> NoHandler]
    /\ original_sigterm_handler = [o \in Orchs |-> NoHandler]
    /\ pieces \in Texts
    /\ response = RenderText(pieces)
    /\ parsed = NoParsed
    /\ commands = <<>>
    /\ called = {}
    /\ discovery = Discovery(50, FALSE, FALSE, 0)
    /\ log = <<>>

NextParse ==
    \/ ParseCommand
    \/ ExtractCommands
    \/ \E dry_run \in BOOLEAN : ExecuteCommands(dry_run)

SpecParse == InitParse /\ [][NextParse]_vars

\* ------------------------------------------------- what a line asks for
\* the line handed to _parse_command, and whether it has been parsed
TheLine == pieces[1]
Parsed == Len(pieces) = 1 /\ "_parse_command" \in called

Opt(name) == W.dashes \o name
ValueOptions == {Opt(W.type), Opt(W.priority), Opt(W.description), Opt(W.status)}

\* the words of toks from i on that stand in option or title position: a
\* value-taking option takes the word after it as its value
RECURSIVE Examined(_, _)
Examined(toks, i) ==
    IF i > Len(toks) THEN {}
    ELSE IF toks[i] \in ValueOptions THEN {i} \cup Examined(toks, i + 2)
    ELSE {i} \cup Examined(toks, i + 1)

Given(sh, name) == {i \in Examined(Tokens(sh), 3) : Tokens(sh)[i] = Opt(name)}
Valued(sh, name) == {i \in Given(sh, name) : i < Len(Tokens(sh))}
Positionals(sh) == {i \in Examined(Tokens(sh), 3) : ~StartsWith(Tokens(sh)[i], W.dashes)}
Last(S) == CHOOSE i \in S : \A j \in S : j <= i
First(S) == CHOOSE i \in S : \A j \in S : i <= j

\* the priority the line asks for: its last --priority, 3 without one
GivenPriority(sh) ==
    IF Valued(sh, W.priority) = {} THEN 3
    ELSE IntValue[Tokens(sh)[Last(Valued(sh, W.priority)) + 1]]

WellFormedVerbs(sh) ==
    /\ Len(Tokens(sh)) >= 3
    /\ Tokens(sh)[1] = W.sugar
    /\ Tokens(sh)[2] = W.add

\* what is wrong with a line, as the reasons _parse_command gives
Defects(sh) ==
    IF ~sh.title.closed THEN {"Failed to parse command"}
    ELSE IF ~WellFormedVerbs(sh) THEN {"Command must start with 'sugar add'"}
    ELSE {"Option requires a value" :
              i \in {j \in Examined(Tokens(sh), 3) :
                         Tokens(sh)[j] \in ValueOptions /\ j = Len(Tokens(sh))}}
         \cup {"Priority must be an integer" :
                   i \in {j \in Valued(sh, W.priority) : Tokens(sh)[j + 1] \notin DOMAIN IntValue}}
         \cup {"Status must be 'pending' or 'hold'" :
                   i \in {j \in Valued(sh, W.status) :
                              Tokens(sh)[j + 1] \notin {W.pending, W.hold}}}
         \cup {"Command must have a title" :
                   i \in {j \in {0} : \/ Positionals(sh) = {}
                                      \/ Tokens(sh)[First(Positionals(sh))] = <<>>}}

C12_FailuresAsData ==
    Parsed =>
        /\ DOMAIN parsed = DOMAIN NoParsed
        /\ parsed.valid \in BOOLEAN
        /\ Defects(TheLine) # {} =>
               /\ ~parsed.valid
               /\ parsed.validation_error # ""
               /\ parsed.validation_error \in Defects(TheLine)
        /\ parsed.valid => parsed.validation_error = ""

C12_Witness ==
    /\ Parsed /\ ~parsed.valid
    /\ parsed.validation_error = "Priority must be an integer"
    /\ TheLine.title = Titles.quoted
    /\ TheLine.options = <<Options.priority_abc>>

\* C13: a ParsedCommand with valid = true has a non-empty title, the first
\* word in title position on the line
C13_ValidHasTitle ==
    (Parsed /\ parsed.valid) =>
        /\ parsed.title # <<>>
        /\ Positionals(TheLine) # {}
        /\ parsed.title = Tokens(TheLine)[First(Positionals(TheLine))]

C13_Witness ==
    /\ Parsed /\ parsed.valid
    /\ TheLine.title = Titles.escaped
    /\ parsed.title = <<"a", DQ, "b">>

\* C14: a ParsedCommand with valid = true has a priority in 1..5, which is 3
\* when the line gives no --priority
C14_PriorityInRange ==
    (Parsed /\ parsed.valid) =>
        /\ parsed.priority \in 1..5
        /\ Given(TheLine, W.priority) = {} => parsed.priority = 3

\* the text has been scanned
Extracted == "_extract_commands" \in called

\* a line that is a valid command under the grammar
GrammarValid(sh) == sh.title.closed /\ Defects(sh) = {}

\* the titles of the lines of shs that pass test, in order
TitlesOf(shs, test(_)) ==
    LET chosen == SelectSeq(shs, test)
    IN  [k \in DOMAIN chosen |-> Tokens(chosen[k])[First(Positionals(chosen[k]))]]

\* C15: _extract_commands returns, in order of appearance, one valid command
\* for each line that is a valid command under the grammar, the verbs
\* separated by any run of whitespace, and nothing for the other lines
C15_ExtractsGrammarLines ==
    Extracted =>
        /\ \A k \in DOMAIN commands : commands[k].valid
        /\ [k \in DOMAIN commands |-> commands[k].title] = TitlesOf(pieces, GrammarValid)

\* a valid line whose verbs are written as the text "sugar add" with one
\* space between them and one after
LiteralValid(sh) == GrammarValid(sh) /\ sh.verbs = Verbs.plain

\* C15, amended: _extract_commands returns, in order of appearance, one valid
\* command for each line that, stripped of surrounding whitespace, begins with
\* the text "sugar add " and is a valid command under the grammar, and nothing
\* for the other lines; a malformed line does not stop the scan
C15_ExtractsLiteralLines ==
    Extracted =>
        /\ \A k \in DOMAIN commands : commands[k].valid
        /\ [k \in DOMAIN commands |-> commands[k].title] = TitlesOf(pieces, LiteralValid)

C15_Witness ==
    /\ Extracted
    /\ Len(pieces) = 3
    /\ pieces[1] = Line(<<SP, SP>>, Verbs.plain, Titles.words, <<Options.urgent>>)
    /\ pieces[2] = Line(<<>>, Verbs.plain, Titles.unclosed, <<>>)
    /\ pieces[3] = Line(<<>>, Verbs.plain, Titles.quoted, <<>>)
    /\ Len(commands) = 2
    /\ commands[1].urgent
    /\ commands[2].title = <<"T">>

\* ================================================= external tool discovery
\* result.stdout[:1000]
PrefixLen == 1000
MaxCalls == 2
MaxCap == 2

\* s[:n]
Slice(s, n) ==
    IF n >= 0 THEN SubSeq(s, 1, IF n < Len(s) THEN n ELSE Len(s))
    ELSE SubSeq(s, 1, IF Len(s) + n > 0 THEN Len(s) + n ELSE 0)

\* the tool results handed to the instance: [name, command, stdout, stderr,
\* exit_code, timed_out, tool_not_found]; the command of tool name is
\* "name ."
Finding(name, out, err, exit_code, timed_out, tool_not_found) ==
    [name |-> name, command |-> name \o <<SP, ".">>, stdout |-> out, stderr |-> err,
     exit_code |-> exit_code, timed_out |-> timed_out, tool_not_found |-> tool_not_found]

Findings ==
    [found |-> Finding(<<"a">>, <<"E", "1">>, <<>>, 1, FALSE, FALSE),
     long_b |-> Finding(<<"a">>, [i \in 1..PrefixLen |-> "x"] \o <<"b">>, <<>>, 1, FALSE, FALSE),
     long_c |-> Finding(<<"a">>, [i \in 1..PrefixLen |-> "x"] \o <<"c">>, <<"w">>, 2, FALSE, FALSE),
     clean |-> Finding(<<"a">>, <<"E", "1">>, <<>>, 0, FALSE, FALSE),
     timed |-> Finding(<<"a">>, <<"E", "1">>, <<>>, 0 - 1, TRUE, FALSE),
     missing |-> Finding(<<"a">>, <<>>, <<"n", "o">>, 0 - 1, FALSE, TRUE),
     blank |-> Finding(<<"a">>, <<SP, NL>>, <<>>, 1, FALSE, FALSE),
     stderr_only |-> Finding(<<"a">>, <<>>, <<"e">>, 1, FALSE, FALSE),
     colon_output |-> Finding(<<"a">>, <<"b", ":", "x">>, <<>>, 1, FALSE, FALSE),
     colon_name |-> Finding(<<"a", ":", "b">>, <<"x">>, <<>>, 1, FALSE, FALSE)]

\* ToolResult.has_output reading stdout only
has_output_stdout_only(result) == Strip(result.stdout) # <<>>

\* ToolResult.has_output
has_output(result) == Strip(result.stdout) # <<>> \/ Strip(result.stderr) # <<>>

\* hash(key) under the hash function of the process: function 0 tells the
\* keys tried apart, function 1 is one under which keys that begin alike
\* collide
hash(hashseed, key) ==
    IF hashseed = 0
    THEN <<Len(key), Slice(key, 8), SubSeq(key, Len(key), Len(key))>>
    ELSE <<Slice(key, 2)>>

\* the hash taken over the whole of stdout
output_hash_whole(d, result) == hash(d.hashseed, result.name \o <<":">> \o result.stdout)

\* output_hash of _parse_tool_output
output_hash(d, result) ==
    hash(d.hashseed, result.name \o <<":">> \o Slice(result.stdout, PrefixLen))

\* datetime.now(timezone.utc).isoformat()
now == "now"

\* _parse_tool_output: [work_items, discovery]; of the work item the fields
\* type, title, priority, status, source, source_file and, of context,
\* tool_name, tool_command, exit_code, discovered_by, added_via and timestamp
\* are kept
_parse_tool_output(d, result) ==
    IF output_hash(d, result) \in d._processed_hashes
    THEN [work_items |-> <<>>, discovery |-> d]
    ELSE [work_items |-> <<[type |-> W.refactor, title |-> W.fix_issues \o result.name,
                            priority |-> 3, status |-> W.pending,
                            source |-> W.external_tools,
                            source_file |-> W.external_tool \o result.name,
                            context |-> [tool_name |-> result.name,
                                         tool_command |-> result.command,
                                         exit_code |-> result.exit_code,
                                         discovered_by |-> "external_tool_discovery",
                                         added_via |-> "sugar_loop",
                                         timestamp |-> now]]>>,
          discovery |-> [d EXCEPT !._processed_hashes = @ \cup {output_hash(d, result)}]]

\* the letters, for re.IGNORECASE and \w
Letters ==
    [lower |-> <<"a", "b", "c", "d", "e", "f", "g", "h", "i", "j", "k", "l", "m", "n", "o", "p", "q", "r", "s", "t", "u", "v", "w", "x", "y", "z">>,
     upper |-> <<"A", "B", "C", "D", "E", "F", "G", "H", "I", "J", "K", "L", "M", "N", "O", "P", "Q", "R", "S", "T", "U", "V", "W", "X", "Y", "Z">>]

\* the one element of a singleton
The(S) == CHOOSE x \in S : TRUE

\* one attempt of the pattern of _parse_sugar_add_commands at position i of
\* text: [ok, end, title, type, priority, description], end being the
\* position after the match; a group that did not take part is empty
MatchAt(text, i) ==
    LET n == Len(text)
        fold(c) == IF \E k \in 1..26 : Letters.upper[k] = c
                   THEN Letters.lower[CHOOSE k \in 1..26 : Letters.upper[k] = c] ELSE c
        word == Range(Letters.lower) \cup Range(Letters.upper) \cup DOMAIN DigitValue \cup {"_"}
        \* the literal lit, whatever its case, stands at j
        at(j, lit) == /\ j + Len(lit) - 1 <= n
                      /\ \A k \in 1..Len(lit) : fold(text[j + k - 1]) = lit[k]
        \* the position after the longest run from j of characters in class
        run(j, class) ==
            CHOOSE k \in j..(n + 1) :
                /\ k = n + 1 \/ text[k] \notin class
                /\ \A l \in j..(k - 1) : text[l] \in class
        \* the position of the next double quote from j, n + 1 without one
        quote(j) ==
            CHOOSE k \in j..(n + 1) :
                /\ k = n + 1 \/ text[k] = DQ
                /\ \A l \in j..(k - 1) : text[l] # DQ
        none(j) == [ok |-> FALSE, value |-> <<>>, end |-> j]
        \* "..." at j with atLeast characters inside, or else
        quoted(j, atLeast, else) ==
            IF j <= n /\ text[j] = DQ
            THEN The({IF q <= n /\ q - (j + 1) >= atLeast
                      THEN [ok |-> TRUE, value |-> SubSeq(text, j + 1, q - 1), end |-> q + 1]
                      ELSE else : q \in {quote(j + 1)}})
            ELSE else
        \* a non-empty run of class at j, or else
        some(j, class, else) ==
            The({IF e > j THEN [ok |-> TRUE, value |-> SubSeq(text, j, e - 1), end |-> e]
                 ELSE else : e \in {run(j, class)}})
        \* (?:\s+--name[=\s]+value)? at j
        option(j, name, kind) ==
            The({IF a > j /\ at(a, name)
                 THEN The({IF c = a + Len(name) THEN none(j)
                           ELSE IF kind = "quoted" THEN quoted(c, 0, none(j))
                           ELSE IF kind = "word" THEN some(c, word, none(j))
                           ELSE some(c, DOMAIN DigitValue, none(j)) :
                           c \in {run(a + Len(name), Whitespace \cup {"="})}})
                 ELSE none(j) : a \in {run(j, Whitespace)}})
        \* sugar\s+add\s+"([^"]+)" at j
        head(j) ==
            IF ~at(j, W.sugar) THEN none(j)
            ELSE The({IF a1 > j + 5 /\ at(a1, W.add)
                      THEN The({IF a2 > a1 + 3 THEN quoted(a2, 1, none(j)) ELSE none(j) :
                                a2 \in {run(a1 + 3, Whitespace)}})
                      ELSE none(j) : a1 \in {run(j + 5, Whitespace)}})
        tail(title) ==
            The({The({The({[ok |-> TRUE, end |-> description.end, title |-> title.value,
                            type |-> type.value, priority |-> priority.value,
                            description |-> description.value] :
                           description \in {option(priority.end, W.dashes \o W.description,
                                                   "quoted")}}) :
                      priority \in {option(type.end, W.dashes \o W.priority, "digits")}}) :
                 type \in {option(title.end, W.dashes \o W.type, "word")}})
    IN  The({IF title.ok THEN tail(title)
             ELSE [ok |-> FALSE, end |-> i, title |-> <<>>, type |-> <<>>, priority |-> <<>>,
                   description |-> <<>>] : title \in {head(i)}})

\* re.findall(pattern, text, re.IGNORECASE) from position i on
RECURSIVE FindAll(_, _)
FindAll(text, i) ==
    LET found == {m \in {[at |-> j] @@ MatchAt(text, j) :
                            j \in {k \in i..Len(text) : text[k] \in {"s", "S"}}} : m.ok}
    IN  IF found = {} THEN <<>>
        ELSE The({<<m>> \o FindAll(text, m.end) :
                  m \in {CHOOSE f \in found : \A g \in found : f.at <= g.at}})

\* ExternalToolDiscovery._parse_sugar_add_commands; of the work item the
\* fields type, title, description, priority, status, source and context
\* are kept
_parse_sugar_add_commands(claude_output, tool_name) ==
    LET matches == FindAll(claude_output, 1)
    IN  [k \in DOMAIN matches |->
            [type |-> IF matches[k].type = <<>> THEN W.refactor ELSE matches[k].type,
             title |-> matches[k].title,
             description |-> matches[k].description,
             priority |-> IF matches[k].priority = <<>> THEN 3 ELSE int(matches[k].priority),
             status |-> W.pending,
             source |-> W.discover \o tool_name,
             context |-> [discovered_by |-> tool_name,
                          added_via |-> "sugar_loop_claude",
                          timestamp |-> now]]]

\* what claude_wrapper.execute_work does: it raises, or returns a result
\* with success false, or with success true and the output text
ClaudeResult(kind, output) == [kind |-> kind, output |-> output]

\* an interpretation that gives nothing when the interpreter fails or raises
_interpret_with_claude_no_fallback(d, result, claude_result) ==
    IF ~d.claude_wrapper
    THEN [invoked |-> FALSE] @@ _parse_tool_output(d, result)
    ELSE IF claude_result.kind = "success"
    THEN [invoked |-> TRUE, discovery |-> d,
          work_items |-> _parse_sugar_add_commands(claude_result.output, result.name)]
    ELSE [invoked |-> TRUE, discovery |-> d, work_items |-> <<>>]

\* _interpret_with_claude: [work_items, discovery, invoked]
_interpret_with_claude(d, result, claude_result) ==
    IF ~d.claude_wrapper
    THEN [invoked |-> FALSE] @@ _parse_tool_output(d, result)
    ELSE IF claude_result.kind = "success"
    THEN [invoked |-> TRUE, discovery |-> d,
          work_items |-> _parse_sugar_add_commands(claude_result.output, result.name)]
    ELSE [invoked |-> TRUE] @@ _parse_tool_output(d, result)

\* the early returns of _process_tool_result without the one for timed_out
skipped_but_timed_out(result) ==
    result.tool_not_found \/ result.exit_code = 0 \/ ~has_output(result)

\* the early returns of _process_tool_result
skipped(result) ==
    result.tool_not_found \/ result.timed_out \/ result.exit_code = 0 \/ ~has_output(result)

\* a limit that keeps the last work items
limit_last(d, work_items) ==
    IF Len(work_items) > d.max_tasks_per_tool
    THEN SubSeq(work_items, Len(work_items) - d.max_tasks_per_tool + 1, Len(work_items))
    ELSE work_items

\* "Limit work items per tool"
limit(d, work_items) ==
    IF Len(work_items) > d.max_tasks_per_tool
    THEN Slice(work_items, d.max_tasks_per_tool)
    ELSE work_items

\* _process_tool_result: [work_items, produced, discovery, invoked], produced
\* being the work items before the limit
_process_tool_result(d, result, claude_result) ==
    IF skipped(result)
    THEN [work_items |-> <<>>, produced |-> <<>>, discovery |-> d, invoked |-> FALSE]
    ELSE LET made == IF d.use_claude_interpretation /\ d.claude_wrapper
                     THEN _interpret_with_claude(d, result, claude_result)
                     ELSE [invoked |-> FALSE] @@ _parse_tool_output(d, result)
         IN  [work_items |-> limit(d, made.work_items), produced |-> made.work_items,
              discovery |-> made.discovery, invoked |-> made.invoked]

\* the texts the interpreter answers with
Replies ==
    {<<Line(<<>>, Verbs.plain, Titles.quoted, <<>>),
       Line(<<>>, Verbs.plain, Titles.words,
            <<Options.type_feature, Options.priority_1, Options.description>>),
       Line(<<>>, Verbs.plain, Titles.quoted, <<>>)>>,
     <<Line(<<>>, Verbs.plain, Titles.quoted, <<Options.status_hold>>)>>,
     <<Line(<<>>, Verbs.plain, Titles.quoted, <<Options.priority_abc>>)>>}

\* one entry of the log: the call, the hashes before it, what it returned
\* and whether it went through _parse_tool_output
Call(op, finding, before, out, summarized) ==
    [op |-> op, finding |-> finding, before |-> before._processed_hashes,
     work_items |-> out.work_items, produced |-> out.produced, invoked |-> out.invoked,
     summarized |-> summarized]

\* the interpreter will be asked about the result
Asked(d, result) == d.use_claude_interpretation /\ d.claude_wrapper /\ ~skipped(result)

\* discover() hands _process_tool_result a tool result that it answers
\* without the interpreter
ProcessToolResult(finding) ==
    /\ Len(log) < MaxCalls
    /\ ~Asked(discovery, Findings[finding])
    /\ \E out \in {_process_tool_result(discovery, Findings[finding], ClaudeResult("raises", <<>>))} :
        /\ discovery' = out.discovery
        /\ log' = Append(log, Call("_process_tool_result", finding, discovery, out,
                                   ~skipped(Findings[finding])))
    /\ UNCHANGED <<toolVars, pieces, response, parsed, commands, called>>

\* discover() hands _process_tool_result a tool result about which it asks
\* the interpreter, which raises, fails or answers with a text
InterpretToolResult(finding, kind, reply) ==
    /\ Len(log) < MaxCalls
    /\ Asked(discovery, Findings[finding])
    /\ \E out \in {_process_tool_result(discovery, Findings[finding],
                                        ClaudeResult(kind, IF kind = "success" THEN RenderText(reply)
                                                           ELSE <<>>))} :
        /\ discovery' = out.discovery
        /\ log' = Append(log, Call("_process_tool_result", finding, discovery, out,
                                   kind # "success"))
    /\ IF kind = "success"
       THEN pieces' = reply /\ response' = RenderText(reply)
       ELSE UNCHANGED <<pieces, response>>
    /\ UNCHANGED <<toolVars, parsed, commands, called>>

\* a caller hands a tool result to _parse_tool_output
ParseToolOutput(finding) ==
    /\ Len(log) < MaxCalls
    /\ \E out \in {_parse_tool_output(discovery, Findings[finding])} :
        /\ discovery' = out.discovery
        /\ log' = Append(log, Call("_parse_tool_output", finding, discovery,
                                   [produced |-> out.work_items, invoked |-> FALSE] @@ out,
                                   TRUE))
    /\ UNCHANGED <<toolVars, pieces, response, parsed, commands, called>>

\* the instances: without interpretation under either hash function, with
\* interpretation asked for but no wrapper, and with interpretation
Settings ==
    {Discovery(max, FALSE, FALSE, hashseed) : max \in 0..MaxCap, hashseed \in {0, 1}}
        \cup {Discovery(1, TRUE, FALSE, 0)}
        \cup {Discovery(max, TRUE, TRUE, 0) : max \in 0..MaxCap}

\* an instance with some settings, in a process with some hash function
InitDiscover ==
    /\ RunIdle
    /\ JsonIdle
    /\ CfgIdle
    /\ external_tools = <<>>
    /\ constructed = 0
    /\ prior = PythonDefaults
    /\ handlers = prior
    /\ original_sigint_handler = [o \in Orchs |-> NoHandler]
    /\ original_sigterm_handler = [o \in Orchs |-> NoHandler]
    /\ pieces = NoPieces
    /\ response = <<>>
    /\ parsed = NoParsed
    /\ commands = <<>>
    /\ called = {}
    /\ discovery \in Settings
    /\ log = <<>>

NextDiscover ==
    \/ \E finding \in DOMAIN Findings : ProcessToolResult(finding)
    \/ \E finding \in DOMAIN Findings, reply \in Replies : InterpretToolResult(finding, "success", reply)
    \/ \E finding \in DOMAIN Findings, kind \in {"failure", "raises"} :
        InterpretToolResult(finding, kind, NoPieces)
    \/ \E finding \in DOMAIN Findings : ParseToolOutput(finding)

SpecDiscover == InitDiscover /\ [][NextDiscover]_vars

\* ------------------------------------------------ what the instance answered
Processed == {k \in DOMAIN log : log[k].op = "_process_tool_result"}
Summarized == {k \in DOMAIN log : log[k].summarized}
ResultOf(k) == Findings[log[k].finding]
Interpreting == discovery.use_claude_interpretation /\ discovery.claude_wrapper

\* the calls k and l were given the same tool and the same first PrefixLen
\* characters of stdout
SamePair(k, l) ==
    /\ ResultOf(k).name = ResultOf(l).name
    /\ \A i \in 1..PrefixLen :
        /\ i <= Len(ResultOf(k).stdout) <=> i <= Len(ResultOf(l).stdout)
        /\ i <= Len(ResultOf(k).stdout) => ResultOf(k).stdout[i] = ResultOf(l).stdout[i]

\* C16: a result that is tool_not_found, is timed_out or has exit code 0
\* gives no work item, with or without interpretation and whatever its
\* output, and the interpreter is not invoked for it
C16_SkippedResults ==
    \A k \in Processed :
        (ResultOf(k).tool_not_found \/ ResultOf(k).timed_out \/ ResultOf(k).exit_code = 0)
            => log[k].work_items = <<>> /\ ~log[k].invoked

C16_Witness ==
    /\ Interpreting
    /\ Len(log) = 2
    /\ log[1].op = "_process_tool_result" /\ log[1].finding = "timed" /\ log[1].work_items = <<>>
    /\ log[2].op = "_process_tool_result" /\ log[2].invoked

Summary(item, name) ==
    /\ item.status = W.pending
    /\ item.priority = 3
    /\ item.context.tool_name = name

\* C18: without interpretation, a result with a non-zero exit code and
\* non-empty output whose tool and first 1000 characters of stdout were not
\* summarized before gives exactly one work item, pending with priority 3
C18_OneItemPerNewPair ==
    \A l \in Processed :
        (/\ ~Interpreting
         /\ ResultOf(l).exit_code # 0
         /\ ResultOf(l).stdout # <<>> \/ ResultOf(l).stderr # <<>>
         /\ \A k \in Summarized : k < l => ~SamePair(k, l))
            => /\ Len(log[l].work_items) = 1
               /\ Summary(log[l].work_items[1], ResultOf(l).name)

\* the result reaches the summary: it ran to its end with a non-zero exit
\* code and wrote something other than whitespace
Reported(r) ==
    /\ ~r.tool_not_found /\ ~r.timed_out /\ r.exit_code # 0
    /\ \E i \in DOMAIN (r.stdout \o r.stderr) : (r.stdout \o r.stderr)[i] \notin Whitespace

\* C18, amended: without interpretation and with max_tasks_per_tool at least
\* 1, a result that is neither tool_not_found nor timed_out, has a non-zero
\* exit code and output other than whitespace gives exactly one work item,
\* pending with priority 3, when the hash of name + ":" + the first 1000
\* characters of stdout is not among the instance's hashes, and none when it is
C18_OneItemPerNewHash ==
    \A l \in Processed :
        (~Interpreting /\ discovery.max_tasks_per_tool >= 1 /\ Reported(ResultOf(l)))
            => IF output_hash(discovery, ResultOf(l)) \in log[l].before
               THEN log[l].work_items = <<>>
               ELSE /\ Len(log[l].work_items) = 1
                    /\ Summary(log[l].work_items[1], ResultOf(l).name)

C18_Witness ==
    /\ ~Interpreting /\ discovery.hashseed = 0 /\ discovery.max_tasks_per_tool = 1
    /\ Len(log) = 2
    /\ log[1].op = "_process_tool_result" /\ log[1].finding = "found"
    /\ log[2].op = "_process_tool_result" /\ log[2].finding = "stderr_only"
    /\ Len(log[1].work_items) = 1 /\ Len(log[2].work_items) = 1

\* C19: _process_tool_result returns at most max_tasks_per_tool work items:
\* all of those produced when they are no more than that, and else the first
\* max_tasks_per_tool of them in their order
C19_Limit ==
    \A k \in Processed :
        /\ Len(log[k].work_items) <= discovery.max_tasks_per_tool
        /\ Len(log[k].work_items) <= Len(log[k].produced)
        /\ \A i \in DOMAIN log[k].work_items : log[k].work_items[i] = log[k].produced[i]
        /\ Len(log[k].produced) <= discovery.max_tasks_per_tool
               => log[k].work_items = log[k].produced
        /\ Len(log[k].produced) > discovery.max_tasks_per_tool
               => Len(log[k].work_items) = discovery.max_tasks_per_tool

C19_Witness ==
    \E k \in Processed :
        /\ discovery.max_tasks_per_tool = 2
        /\ Len(log[k].produced) = 3
        /\ Len(log[k].work_items) = 2
        /\ log[k].work_items[2].title = <<"a", SP, "b">>

\* C20: the work items built from the interpreter's text are, in order, the
\* valid commands that _extract_commands finds in that text, each with the
\* command's title, priority, description and status, and its type when the
\* command gives one
C20_ItemsAreCommands ==
    (log # <<>> /\ log[Len(log)].invoked /\ ~log[Len(log)].summarized) =>
        /\ Len(log[Len(log)].produced) = Len(_extract_commands(response))
        /\ \A k \in DOMAIN log[Len(log)].produced :
            /\ k \in DOMAIN _extract_commands(response)
            /\ log[Len(log)].produced[k].title = _extract_commands(response)[k].title
            /\ log[Len(log)].produced[k].priority = _extract_commands(response)[k].priority
            /\ log[Len(log)].produced[k].description = _extract_commands(response)[k].description
            /\ log[Len(log)].produced[k].status = _extract_commands(response)[k].status
            /\ _extract_commands(response)[k].task_type # ParsedCommand(<<>>, <<>>).task_type
                   => log[Len(log)].produced[k].type = _extract_commands(response)[k].task_type

\* the source of the item, or its source_file, names the tool
Identifies(item, name) ==
    \/ Contains(item.source, name)
    \/ "source_file" \in DOMAIN item /\ Contains(item.source_file, name)

\* C21: every work item returned, summarized or interpreted, has a source
\* that names the tool it comes from and a context that holds the tool's
\* name, the command that was run, the exit code and a timestamp
C21_Provenance ==
    \A k \in DOMAIN log : \A i \in DOMAIN log[k].work_items :
        /\ Identifies(log[k].work_items[i], ResultOf(k).name)
        /\ {"tool_name", "tool_command", "exit_code", "timestamp"}
               \subseteq DOMAIN log[k].work_items[i].context
        /\ log[k].work_items[i].context.tool_name = ResultOf(k).name
        /\ log[k].work_items[i].context.tool_command = ResultOf(k).command
        /\ log[k].work_items[i].context.exit_code = ResultOf(k).exit_code

\* ------------------------------------------------- tool configuration
\* most entries of a configuration
MaxEntries == 3

\* str.lower()
lower(s) ==
    [i \in DOMAIN s |->
        IF \E k \in DOMAIN Letters.upper : Letters.upper[k] = s[i]
        THEN Letters.lower[CHOOSE k \in DOMAIN Letters.upper : Letters.upper[k] = s[i]]
        ELSE s[i]]

\* raise ExternalToolConfigError("external_tools[index]: message"), and return
ExternalToolConfigError(index, message) ==
    [called |-> TRUE, raised |-> TRUE, index |-> index, message |-> message, value |-> <<>>]
Returned(value) ==
    [called |-> TRUE, raised |-> FALSE, index |-> 0 - 1, message |-> "", value |-> value]

\* validate_external_tool; index counts from 0
validate_external_tool(tool_config, index) ==
    IF tool_config.type # "dict"
    THEN ExternalToolConfigError(index, "Expected dictionary")
    ELSE IF tool_config.name = None
    THEN ExternalToolConfigError(index, "Missing required field 'name'")
    ELSE IF tool_config.name.type # "str"
    THEN ExternalToolConfigError(index, "Field 'name' must be a string")
    ELSE IF Strip(tool_config.name.value) = <<>>
    THEN ExternalToolConfigError(index, "Field 'name' cannot be empty")
    ELSE IF tool_config.command = None
    THEN ExternalToolConfigError(index, "Missing required field 'command'")
    ELSE IF tool_config.command.type # "str"
    THEN ExternalToolConfigError(index, "Field 'command' must be a string")
    ELSE IF Strip(tool_config.command.value) = <<>>
    THEN ExternalToolConfigError(index, "Field 'command' cannot be empty")
    ELSE Returned([name |-> Strip(tool_config.name.value),
                   command |-> Strip(tool_config.command.value)])

\* "Check for duplicate names" comparing the names as written
duplicate_as_written(tool, seen_names) == tool.name \in seen_names

\* "Check for duplicate names"
duplicate(tool, seen_names) == lower(tool.name) \in seen_names

\* the loop of validate_external_tools_config from index on
RECURSIVE validate_from(_, _, _, _)
validate_from(entries, index, validated_tools, seen_names) ==
    IF index >= Len(entries) THEN Returned(validated_tools)
    ELSE LET tool == validate_external_tool(entries[index + 1], index)
         IN  IF tool.raised THEN tool
             ELSE IF duplicate(tool.value, seen_names)
             THEN ExternalToolConfigError(index, "Duplicate tool name")
             ELSE validate_from(entries, index + 1, Append(validated_tools, tool.value),
                                seen_names \cup {lower(tool.value.name)})

\* validate_external_tools_config
validate_external_tools_config(cfg) ==
    IF cfg = None THEN Returned(<<>>)
    ELSE IF cfg.type # "list"
    THEN ExternalToolConfigError(0 - 1, "Expected list")
    ELSE validate_from(cfg.value, 0, <<>>, {})

\* what the settings file can hold under external_tools: nothing, something
\* that is no list, or a list of at most MaxEntries entries; an entry is a
\* mapping with or without name and command, of any type, or no mapping
Str(s) == [type |-> "str", value |-> s]
Entry(name, command) == [type |-> "dict", name |-> name, command |-> command]
Entries ==
    {[type |-> "str", name |-> None, command |-> None], Entry(None, None)}
    \cup {Entry(n, Str(<<SP, "c", SP>>)) :
            n \in {None, [type |-> "int", value |-> <<"0">>], Str(<<>>), Str(<<SP>>)}}
    \cup {Entry(Str(n), c) :
            n \in {<<"a">>, <<SP, "A", TAB>>, <<"b">>},
            c \in {None, [type |-> "int", value |-> <<"0">>], Str(<<SP>>), Str(<<SP, "c", SP>>)}}
Configs ==
    {None, [type |-> "dict", value |-> <<>>]}
    \cup {[type |-> "list", value |-> es] :
            es \in UNION {[1..n -> Entries] : n \in 0..MaxEntries}}

\* the configuration is validated
ValidateExternalToolsConfig ==
    /\ ~validated.called
    /\ validated' = validate_external_tools_config(config)
    /\ UNCHANGED <<orchVars, sigVars, fsVars, runVars, temp_dir, outcome, cleaned, leaked,
                   cleanups, observed, pieces, response, parsed, commands, called,
                   discovery, log, config, environ, unexpanded, expanded, jsonVars,
                   loopVars>>

\* most pieces a command is written from
MaxPieces == 2

\* [A-Za-z_] and [A-Za-z0-9_] of the pattern
NameStart == {Letters.lower[k] : k \in DOMAIN Letters.lower} \cup {Letters.upper[k] : k \in DOMAIN Letters.upper} \cup {"_"}
NameChars == NameStart \cup {"0", "1", "2", "3", "4", "5", "6", "7", "8", "9"}

\* the end of the longest stretch of text from i on that is within chars
\* (i - 1 when there is none)
RunEnd(text, i, chars) ==
    IF \A j \in i..Len(text) : text[j] \in chars THEN Len(text)
    ELSE (CHOOSE j \in i..Len(text) : text[j] \notin chars /\ \A k \in i..(j - 1) : text[k] \in chars) - 1

\* the match of \$\{?([A-Za-z_][A-Za-z0-9_]*)\}? that starts at i:
\* [found, name, end]
var_match(text, i) ==
    LET at == IF i + 1 <= Len(text) /\ text[i + 1] = "{" THEN i + 2 ELSE i + 1
        last == RunEnd(text, at, NameChars)
        closed == last + 1 <= Len(text) /\ text[last + 1] = "}"
    IN  IF text[i] = "$" /\ at <= Len(text) /\ text[at] \in NameStart
        THEN [found |-> TRUE, name |-> SubSeq(text, at, last),
              end |-> IF closed THEN last + 1 ELSE last]
        ELSE [found |-> FALSE, name |-> <<>>, end |-> i]

\* replace_var: the value of the variable, or the matched text when the
\* variable is not set
replace_var(env, text, i, m) ==
    IF m.name \in DOMAIN env THEN env[m.name] ELSE SubSeq(text, i, m.end)

\* re.sub(pattern, replace_var, command) from i on
RECURSIVE sub(_, _, _)
sub(env, text, i) ==
    IF i > Len(text) THEN <<>>
    ELSE IF var_match(text, i).found
    THEN replace_var(env, text, i, var_match(text, i)) \o sub(env, text, var_match(text, i).end + 1)
    ELSE <<text[i]>> \o sub(env, text, i + 1)

\* expand_env_vars
expand_env_vars(env, command) == Returned(sub(env, command, 1))

\* the environments and the commands tried
Environs ==
    {<<>>,
     [n \in {<<"X">>} |-> <<"v">>],
     [n \in {<<"X">>, <<"Y">>} |-> IF n = <<"X">> THEN <<"$", "Y">> ELSE <<"w">>],
     [n \in {<<"X", "Y">>} |-> <<>>]}
Pieces ==
    {<<"$", "X">>, <<"$", "{", "X", "}">>, <<"$", "{", "X">>, <<"$", "X", "}">>,
     <<"$", "{", "Y", "}">>, <<"$">>, <<"$", "1">>, <<"a">>, <<"Y">>, <<"}">>, <<SP>>}
UnexpandedCommands ==
    {Concat(ps) : ps \in UNION {[1..n -> Pieces] : n \in 0..MaxPieces}}

\* a command is expanded, as ExternalToolConfig.get_expanded_command does
ExpandEnvVars ==
    /\ ~expanded.called
    /\ expanded' = expand_env_vars(environ, unexpanded)
    /\ UNCHANGED <<orchVars, sigVars, fsVars, runVars, temp_dir, outcome, cleaned, leaked,
                   cleanups, observed, pieces, response, parsed, commands, called,
                   discovery, log, config, validated, environ, unexpanded, jsonVars,
                   loopVars>>

\* SpecConfig: a configuration is validated, or a command is expanded under
\* an environment
InitConfig ==
    /\ RunIdle
    /\ JsonIdle
    /\ external_tools = <<>>
    /\ constructed = 0
    /\ prior = PythonDefaults
    /\ handlers = prior
    /\ original_sigint_handler = [o \in Orchs |-> NoHandler]
    /\ original_sigterm_handler = [o \in Orchs |-> NoHandler]
    /\ pieces = NoPieces
    /\ response = <<>>
    /\ parsed = NoParsed
    /\ commands = <<>>
    /\ called = {}
    /\ discovery = Discovery(50, FALSE, FALSE, 0)
    /\ log = <<>>
    /\ validated = NotCalled
    /\ expanded = NotCalled
    /\ \/ config \in Configs /\ environ = <<>> /\ unexpanded = <<>>
       \/ config = None /\ environ \in Environs /\ unexpanded \in UnexpandedCommands

NextConfig ==
    \/ ValidateExternalToolsConfig
    \/ ExpandEnvVars

SpecConfig == InitConfig /\ [][NextConfig]_vars

\* ------------------------------------------------- what a configuration asks for
\* the entry is in order: a mapping whose name and command are strings with
\* something other than whitespace in them
InOrder(e) ==
    /\ e.type = "dict"
    /\ e.name.type = "str" /\ \E i \in DOMAIN e.name.value : e.name.value[i] \notin Whitespace
    /\ e.command.type = "str" /\ \E i \in DOMAIN e.command.value : e.command.value[i] \notin Whitespace

\* entry i of es offends: it is not in order, or its name is, ignoring case
\* and the whitespace around it, that of an earlier entry
Offending(es, i) ==
    \/ ~InOrder(es[i])
    \/ \E j \in 1..(i - 1) :
        /\ InOrder(es[j])
        /\ lower(Strip(es[j].name.value)) = lower(Strip(es[i].name.value))

Trimmed(s) == s # <<>> /\ s[1] \notin Whitespace /\ s[Len(s)] \notin Whitespace

\* C22: validating a list either returns one tool per entry, in the order of
\* the entries, with trimmed non-empty names and commands and names that
\* differ pairwise ignoring case, or raises an error that gives the index of
\* the first offending entry and returns nothing; no configuration gives no
\* tools, and a configuration that is no list raises
C22_AllOrNothing ==
    validated.called =>
        IF config = None THEN ~validated.raised /\ validated.value = <<>>
        ELSE IF config.type # "list" THEN validated.raised /\ validated.value = <<>>
        ELSE IF \A i \in DOMAIN config.value : ~Offending(config.value, i)
        THEN /\ ~validated.raised
             /\ Len(validated.value) = Len(config.value)
             /\ \A i \in DOMAIN validated.value :
                 /\ validated.value[i].name = Strip(config.value[i].name.value)
                 /\ validated.value[i].command = Strip(config.value[i].command.value)
                 /\ Trimmed(validated.value[i].name) /\ Trimmed(validated.value[i].command)
                 /\ \A j \in DOMAIN validated.value :
                     i # j => lower(validated.value[i].name) # lower(validated.value[j].name)
        ELSE /\ validated.raised
             /\ validated.value = <<>>
             /\ validated.index + 1 \in DOMAIN config.value
             /\ Offending(config.value, validated.index + 1)
             /\ \A i \in 1..validated.index : ~Offending(config.value, i)

C22_Witness ==
    /\ config.type = "list" /\ Len(config.value) = 3
    /\ config.value[1].name = Str(<<"a">>)
    /\ config.value[2].name = Str(<<SP, "A", TAB>>)
    /\ ~InOrder(config.value[3])
    /\ validated.raised /\ validated.index = 1
    /\ validated.message = "Duplicate tool name"

\* the token of one of the two forms that starts at i: [found, name, end]
Token(text, i) ==
    LET bare == RunEnd(text, i + 1, NameChars)
        braced == RunEnd(text, i + 2, NameChars)
    IN  IF text[i] = "$" /\ i + 1 <= Len(text) /\ text[i + 1] \in NameStart
        THEN [found |-> TRUE, name |-> SubSeq(text, i + 1, bare), end |-> bare]
        ELSE IF /\ text[i] = "$" /\ i + 2 <= Len(text) /\ text[i + 1] = "{"
                /\ text[i + 2] \in NameStart
                /\ braced + 1 <= Len(text) /\ text[braced + 1] = "}"
        THEN [found |-> TRUE, name |-> SubSeq(text, i + 2, braced), end |-> braced + 1]
        ELSE [found |-> FALSE, name |-> <<>>, end |-> i]

\* text from i on with every $NAME and ${NAME} of a variable that is set
\* replaced by its value, and all else as it is
RECURSIVE Substituted(_, _, _)
Substituted(env, text, i) ==
    IF i > Len(text) THEN <<>>
    ELSE IF Token(text, i).found /\ Token(text, i).name \in DOMAIN env
    THEN env[Token(text, i).name] \o Substituted(env, text, Token(text, i).end + 1)
    ELSE IF Token(text, i).found
    THEN SubSeq(text, i, Token(text, i).end) \o Substituted(env, text, Token(text, i).end + 1)
    ELSE <<text[i]>> \o Substituted(env, text, i + 1)

\* C23: expand_env_vars returns the command with each $NAME and ${NAME} of
\* a variable that is set replaced by the variable's value, which is not
\* scanned again, and with every other character as it was, a brace that is
\* no part of one of the two forms included
C23_ExpandsTheTwoForms ==
    expanded.called => expanded.value = Substituted(environ, unexpanded, 1)

\* ------------------------------------------------- JSON validation
\* most accesses to the JSON properties of the result held
MaxAccesses == 3

\* the index of the first character of s from i on that is no whitespace
\* (Len(s) + 1 when there is none)
skip_ws(s, i) == RunEnd(s, i, Whitespace) + 1

\* str(JSONDecodeError(msg, doc, pos)), pos counting from 0, on one line
JSONDecodeError(msg, pos) ==
    [ok |-> FALSE, end |-> 0,
     error |-> msg \o ": line 1 column " \o ToString(pos + 1) \o " (char " \o ToString(pos) \o ")"]
Decoded(end) == [ok |-> TRUE, end |-> end, error |-> NoneStr]

\* json's scanner at index i (from 1) of s, for documents made of integers,
\* null, true, false, arrays and the empty object: [ok, end, error], end
\* being the index after the value
RECURSIVE scan_once(_, _)
RECURSIVE JSONArray(_, _)
scan_once(s, i) ==
    IF i > Len(s) THEN JSONDecodeError("Expecting value", i - 1)
    ELSE IF s[i] = "[" THEN
        IF skip_ws(s, i + 1) <= Len(s) /\ s[skip_ws(s, i + 1)] = "]"
        THEN Decoded(skip_ws(s, i + 1) + 1)
        ELSE JSONArray(s, skip_ws(s, i + 1))
    ELSE IF s[i] = "{" THEN
        IF skip_ws(s, i + 1) <= Len(s) /\ s[skip_ws(s, i + 1)] = "}"
        THEN Decoded(skip_ws(s, i + 1) + 1)
        ELSE JSONDecodeError("Expecting property name enclosed in double quotes",
                             skip_ws(s, i + 1) - 1)
    ELSE IF \E word \in {<<"n", "u", "l", "l">>, <<"t", "r", "u", "e">>} :
                StartsWith(SubSeq(s, i, Len(s)), word)
    THEN Decoded(i + 4)
    ELSE IF StartsWith(SubSeq(s, i, Len(s)), <<"f", "a", "l", "s", "e">>) THEN Decoded(i + 5)
    ELSE IF s[i] = "0" THEN Decoded(i + 1)
    ELSE IF s[i] \in DOMAIN DigitValue THEN Decoded(RunEnd(s, i, DOMAIN DigitValue) + 1)
    ELSE JSONDecodeError("Expecting value", i - 1)

\* the values of an array from index i on, i being at a value
JSONArray(s, i) ==
    LET value == scan_once(s, i)
        next == skip_ws(s, value.end)
    IN  IF ~value.ok THEN value
        ELSE IF next <= Len(s) /\ s[next] = "]" THEN Decoded(next + 1)
        ELSE IF next <= Len(s) /\ s[next] = "," THEN JSONArray(s, skip_ws(s, next + 1))
        ELSE JSONDecodeError("Expecting ',' delimiter", next - 1)

\* json.loads(s): [ok, end, error]
json_loads(s) ==
    LET value == scan_once(s, skip_ws(s, 1))
    IN  IF ~value.ok THEN value
        ELSE IF skip_ws(s, value.end) <= Len(s)
        THEN JSONDecodeError("Extra data", skip_ws(s, value.end) - 1)
        ELSE value

\* _validate_json that validates at every access
_validate_json_uncached(self, text) ==
    [self EXCEPT !._json_validated = TRUE,
                 !._is_json_output = Strip(text) # <<>> /\ json_loads(Strip(text)).ok,
                 !._json_parse_error = IF Strip(text) = <<>> THEN NoneStr
                                       ELSE json_loads(Strip(text)).error]

\* ToolResult._validate_json, text being what self.stdout gives when it is
\* read
_validate_json(self, text) ==
    IF self._json_validated THEN self
    ELSE IF Strip(text) = <<>>
    THEN [self EXCEPT !._json_validated = TRUE, !._is_json_output = FALSE,
                      !._json_parse_error = NoneStr]
    ELSE [self EXCEPT !._json_validated = TRUE,
                      !._is_json_output = json_loads(Strip(text)).ok,
                      !._json_parse_error = json_loads(Strip(text)).error]

\* what the output file of the result can hold
JsonTexts ==
    {<<>>, <<SP, NL>>, <<"[", "1", ",", SP, "2", "]", NL>>, <<"{", "}">>, <<"x">>,
     <<"[", "1">>, <<"[", "]", SP, "x">>, <<"[", "1", SP, "2", "]">>}

\* a holder of the result reads is_json_output or json_parse_error; reading
\* the file may fail
JsonAccess(accessor) ==
    /\ Len(answers) < MaxAccesses
    /\ \E oserror \in BOOLEAN :
          LET text == stdout(ResultAt(json.output_path), oserror)
              self == _validate_json(json, text)
          IN  /\ oserror => ~json._json_validated /\ json.output_path \in DOMAIN files
              /\ json' = self
              /\ answers' = Append(answers,
                    [accessor |-> accessor,
                     value |-> IF accessor = "json_parse_error" THEN self._json_parse_error
                               ELSE IF self._is_json_output THEN "True" ELSE "False",
                     read |-> IF json._json_validated THEN <<>> ELSE <<text>>])
    /\ UNCHANGED <<orchVars, sigVars, fsVars, runVars, temp_dir, outcome, cleaned, leaked,
                   cleanups, observed, pieces, response, parsed, commands, called,
                   discovery, log, cfgVars, executed, loopVars>>

\* something else rewrites the output file of the result
EnvRewriteFile ==
    /\ \E p \in DOMAIN files, bytes \in JsonTexts :
          /\ files[p] # bytes
          /\ files' = [files EXCEPT ![p] = bytes]
    /\ cleanups' = 0
    /\ UNCHANGED <<pipeVars, orchVars, sigVars, temp_dir, dirs, mkdtemps, runVars, outcome,
                   cleaned, leaked, observed>>

\* SpecJson: a caller holds one result of orchestrator 1, whose output file
\* holds any of the texts; the properties are read while the file is
\* rewritten, removed, or cleaned up
InitJson ==
    /\ proc = "alive"
    /\ delivery = NoDelivery
    /\ external_tools = <<[name |-> ToolNames[1], command |-> Cmd_ls]>>
    /\ constructed = 1
    /\ prior = PythonDefaults
    /\ original_sigint_handler = [o \in Orchs |-> IF o = 1 THEN prior[SIGINT] ELSE NoHandler]
    /\ original_sigterm_handler = [o \in Orchs |-> IF o = 1 THEN prior[SIGTERM] ELSE NoHandler]
    /\ handlers = [s \in Sigs |-> BoundHandler(1)]
    /\ mkdtemps = mkdtemp(0)
    /\ temp_dir = [o \in Orchs |-> IF o = 1 THEN mkdtemps ELSE NoDir]
    /\ dirs = {mkdtemps}
    /\ \E bytes \in JsonTexts :
          files = WriteFile(<<>>, OutputPath(mkdtemps, ToolNames[1]), bytes)
    /\ handles = {OutputPath(mkdtemps, ToolNames[1])}
    /\ json = Json(OutputPath(mkdtemps, ToolNames[1]))
    /\ answers = <<>>
    /\ executed = <<>>
    /\ discover_call = NotDiscovering
    /\ default_timeout = DEFAULT_TIMEOUT_SECONDS
    /\ timeouts = <<>>
    /\ invoked = NoTool
    /\ call = IdleCall
    /\ child = NoChild
    /\ batch = NoBatch
    /\ lastResult = NoResult
    /\ allResults = <<>>
    /\ outcome = NoOutcome
    /\ cleaned = {}
    /\ leaked = {}
    /\ cleanups = 0
    /\ observed = NoRead
    /\ runs = 1
    /\ spawns = 1
    /\ CfgIdle
    /\ pieces = NoPieces
    /\ response = <<>>
    /\ parsed = NoParsed
    /\ commands = <<>>
    /\ called = {}
    /\ discovery = Discovery(50, FALSE, FALSE, 0)
    /\ log = <<>>

NextJson ==
    \/ \E accessor \in {"is_json_output", "json_parse_error"} : JsonAccess(accessor)
    \/ EnvRewriteFile
    \/ EnvRemoveFile
    \/ Cleanup(1)

SpecJson == InitJson /\ [][NextJson]_vars

\* ------------------------------------------------- what the properties answer
\* the fields a new result gets from validating text
Validation(text) == _validate_json(Json(NoPath), text)

\* C24: nothing is validated before the first read of is_json_output or
\* json_parse_error; the first read validates what the output file then
\* gives, and every read answers with what that validation found, whatever
\* has become of the file since; text with nothing but whitespace in it
\* is no JSON output and has no parse error
C24_ValidatedOnce ==
    /\ answers = <<>> => ~json._json_validated
    /\ \A k \in DOMAIN answers :
        /\ answers[k].read # <<>> <=> k = 1
        /\ json._json_validated
        /\ answers[k].value =
              IF answers[k].accessor = "json_parse_error"
              THEN Validation(answers[1].read[1])._json_parse_error
              ELSE IF Validation(answers[1].read[1])._is_json_output THEN "True" ELSE "False"
        /\ (\A i \in DOMAIN answers[1].read[1] : answers[1].read[1][i] \in Whitespace)
              => answers[k].value \in {"False", NoneStr}

C24_Witness ==
    /\ Len(answers) = 3
    /\ answers[1].accessor = "is_json_output" /\ answers[1].value = "True"
    /\ answers[2].accessor = "json_parse_error" /\ answers[2].value = NoneStr
    /\ answers[3].accessor = "is_json_output" /\ answers[3].value = "True"
    /\ json.output_path \notin DOMAIN files
    /\ temp_dir[1] = NoDir

\* ------------------------------------------------- package runners
\* a command that starts with a package runner, which is not on the search
\* path
Cmd_npx == <<"n", "p", "x", SP, "e">>

\* SpecRunner: one orchestrator whose tools run ls or go through npx
InitRunner ==
    /\ InitRun
    /\ external_tools \in UNION {{[i \in 1..n |-> [name |-> ToolNames[i], command |-> c[i]]] :
                                    c \in [1..n -> {Cmd_ls, Cmd_npx}]} : n \in 1..MaxTools}
    /\ constructed = 1
    /\ prior = PythonDefaults
    /\ original_sigint_handler = [o \in Orchs |-> IF o = 1 THEN prior[SIGINT] ELSE NoHandler]
    /\ original_sigterm_handler = [o \in Orchs |-> IF o = 1 THEN prior[SIGTERM] ELSE NoHandler]
    /\ handlers = [s \in Sigs |-> BoundHandler(1)]

SpecRunner == InitRunner /\ [][Next]_vars

\* the package runners that skip_check_prefixes names
PackageRunners == {Strip(prefix) : prefix \in skip_check_prefixes}

\* C25: a command whose first word is a package runner is never answered
\* with tool_not_found: the existence check is skipped, whether or not the
\* runner is on the search path
C25_RunnersSkipCheck ==
    lastResult.tool_not_found => Executable(lastResult.command) \notin PackageRunners

\* ------------------------------------------------- the shared directory
\* the step gives orchestrator 1 its first directory only within an
\* invocation whose command passes the existence check
Lazily ==
    (temp_dir[1] = NoDir /\ temp_dir'[1] # NoDir) =>
        /\ runs' = runs + 1
        /\ ~SplitRaises(invoked'.command)
        /\ _check_executable_exists(Executable(invoked'.command))

\* C26: temp_dir is None until an invocation passes the existence check,
\* and the output files of all results returned since the last cleanup lie
\* in one directory, the orchestrator's temp_dir
C26_OneDirectory ==
    /\ [](\A p \in handles \ cleaned : p # NoPath => p[1] = temp_dir[1])
    /\ [][Lazily]_vars

\* C26, amended: temp_dir is None until an invocation passes the existence
\* check; an invocation replaces it only when the directory no longer
\* exists; so the output files of the results returned since the last
\* cleanup lie in temp_dir, but for those whose directory has ceased to
\* exist in the meantime
C26_OneDirectoryWhileItExists ==
    /\ [](\A p \in handles \ cleaned :
            p # NoPath => p[1] = temp_dir[1] \/ p[1] \notin dirs)
    /\ [][/\ Lazily
          /\ (temp_dir'[1] # temp_dir[1] /\ temp_dir[1] # NoDir) => temp_dir[1] \notin dirs]_vars

C26_Witness ==
    /\ mkdtemps = 1
    /\ temp_dir[1] = 1
    /\ Cardinality(handles \ {NoPath}) = 3
    /\ \A p \in handles \ {NoPath} : p[1] = temp_dir[1] /\ p \in DOMAIN files

\* ------------------------------------------------- parsed commands as data
\* C27: no subprocess is run with arguments that come from a command
\* parsed out of the interpreter's text
C27_NeverExecutes == executed = <<>>

\* ------------------------------------------------------------ discover()
\* SpecDiscoverCall: one call of ExternalToolDiscovery.discover, with the
\* orchestrator it constructs (orchestrator 1), the tools that orchestrator
\* runs and the interpreter it awaits

\* the ToolResult as _process_tool_result reads it: stdout is read from the
\* output file at every access, oserror is whether that read fails
Seen(result, oserror) ==
    [name |-> <<result.name>>, command |-> result.command,
     stdout |-> stdout(result, oserror),
     stderr |-> IF result.stderr = "" THEN <<>> ELSE <<result.stderr>>,
     exit_code |-> result.exit_code, timed_out |-> result.timed_out,
     tool_not_found |-> result.tool_not_found]

\* what a step of discover() itself leaves alone, but for discovery
discoverFrame ==
    <<orchVars, sigVars, fsVars, runVars, temp_dir, outcome, cleaned, leaked, cleanups,
      observed, cfgVars, jsonVars, pieces, response, parsed, commands, called, log,
      default_timeout, timeouts>>

\* the loop of discover() has extended work_items and goes on to the next
\* result, or leaves the try block after the last one
Extended(dc, tool_work_items) ==
    [dc EXCEPT !.index = @ + 1, !.work_items = @ \o tool_work_items,
               !.stage = IF dc.index + 1 = Len(dc.results) THEN "finally" ELSE "for"]

\* discover() is called: without tools it returns at once, with tools it
\* constructs its orchestrator and enters the try block
Discover ==
    /\ discover_call.stage = "idle"
    /\ discover_call' = [discover_call EXCEPT
                            !.stage = IF external_tools = <<>> THEN "returned" ELSE "try"]
    /\ UNCHANGED <<discoverFrame, discovery>>

\* orchestrator.execute_all(timeout_per_tool=self.default_timeout) is called
DiscoverExecuteAll ==
    /\ discover_call.stage = "try"
    /\ runs = 0
    /\ ~batch.active
    /\ ExecuteAllBegin

\* execute_all returns its results, or raises into the except clause
DiscoverResults ==
    /\ discover_call.stage = "try"
    /\ outcome.op = "execute_all"
    /\ discover_call' = IF outcome.raised = NoneStr
                        THEN [discover_call EXCEPT !.stage = "for", !.results = allResults]
                        ELSE [discover_call EXCEPT !.stage = "finally"]
    /\ UNCHANGED <<discoverFrame, discovery>>

\* the loop hands the next result to _process_tool_result, which answers
\* without the interpreter
DiscoverProcess ==
    /\ discover_call.stage = "for"
    /\ \E oserror \in BOOLEAN :
        LET result == discover_call.results[discover_call.index + 1]
        IN  /\ oserror => result.output_path \in DOMAIN files
            /\ ~Asked(discovery, Seen(result, oserror))
            /\ \E out \in {_process_tool_result(discovery, Seen(result, oserror),
                                                ClaudeResult("raises", <<>>))} :
                /\ discovery' = out.discovery
                /\ discover_call' = Extended(discover_call, out.work_items)
    /\ UNCHANGED discoverFrame

\* the loop hands the next result to _process_tool_result, and
\* _interpret_with_claude awaits claude_wrapper.execute_work
DiscoverInterpret ==
    /\ discover_call.stage = "for"
    /\ \E oserror \in BOOLEAN :
        LET result == discover_call.results[discover_call.index + 1]
        IN  /\ oserror => result.output_path \in DOMAIN files
            /\ Asked(discovery, Seen(result, oserror))
    /\ discover_call' = [discover_call EXCEPT
                            !.stage = "await",
                            !.execute_work = Append(@, [result |-> discover_call.index + 1,
                                                        returned |-> FALSE])]
    /\ UNCHANGED <<discoverFrame, discovery>>

\* execute_work raises, fails or answers with a text, and
\* _process_tool_result returns
DiscoverInterpreted(kind, reply) ==
    /\ discover_call.stage = "await"
    /\ \E oserror \in BOOLEAN :
        LET result == discover_call.results[discover_call.index + 1]
        IN  /\ oserror => result.output_path \in DOMAIN files
            /\ \E made \in {_interpret_with_claude(discovery, Seen(result, oserror),
                                                   ClaudeResult(kind, IF kind = "success"
                                                                      THEN RenderText(reply)
                                                                      ELSE <<>>))} :
                /\ discovery' = made.discovery
                /\ discover_call' =
                      [Extended(discover_call, limit(discovery, made.work_items)) EXCEPT
                          !.execute_work[Len(discover_call.execute_work)].returned = TRUE]
    /\ UNCHANGED discoverFrame

\* a cleanup() that may also run while the results are being processed
DiscoverCleanup_early ==
    /\ discover_call.stage \in {"for", "finally"}
    /\ outcome.op # "cleanup"
    /\ Cleanup(1)

\* finally: orchestrator.cleanup()
DiscoverCleanup ==
    /\ discover_call.stage = "finally"
    /\ outcome.op # "cleanup"
    /\ Cleanup(1)

\* discover() returns work_items
DiscoverReturn ==
    /\ discover_call.stage = "finally"
    /\ outcome.op = "cleanup"
    /\ discover_call' = [discover_call EXCEPT !.stage = "returned"]
    /\ UNCHANGED <<discoverFrame, discovery>>

\* most tools of the instance that discover() runs
MaxDiscovered == 2

\* an instance with or without interpretation, whose orchestrator is
\* configured with any of the tool lists
InitDiscoverCall ==
    /\ RunIdle
    /\ CfgIdle
    /\ JsonIdle
    /\ pieces = NoPieces
    /\ response = <<>>
    /\ parsed = NoParsed
    /\ commands = <<>>
    /\ called = {}
    /\ log = <<>>
    /\ discovery \in {Discovery(0, FALSE, FALSE, 0), Discovery(MaxCap, FALSE, FALSE, 0),
                      Discovery(1, TRUE, TRUE, 0), Discovery(MaxCap, TRUE, TRUE, 0)}
    /\ external_tools \in {tools \in ToolLists : Len(tools) <= MaxDiscovered}
    /\ constructed = 1
    /\ prior = PythonDefaults
    /\ original_sigint_handler = [o \in Orchs |-> IF o = 1 THEN prior[SIGINT] ELSE NoHandler]
    /\ original_sigterm_handler = [o \in Orchs |-> IF o = 1 THEN prior[SIGTERM] ELSE NoHandler]
    /\ handlers = [s \in Sigs |-> BoundHandler(1)]

NextDiscoverCall ==
    \/ Discover
    \/ DiscoverExecuteAll
    \/ ExecuteAllNext
    \/ \E bytes \in Contents : ChildWrite(bytes)
    \/ ExecuteToolFinish
    \/ DiscoverResults
    \/ DiscoverProcess
    \/ DiscoverInterpret
    \/ \E reply \in Replies : DiscoverInterpreted("success", reply)
    \/ \E kind \in {"failure", "raises"} : DiscoverInterpreted(kind, NoPieces)
    \/ DiscoverCleanup
    \/ DiscoverReturn

SpecDiscoverCall == InitDiscoverCall /\ [][NextDiscoverCall]_vars

\* C28: within one execute_all the tools are launched one at a time and in
\* configured order, the k-th invocation being that of the k-th configured
\* tool and starting only when no invocation is in progress and no child
\* runs, so that no tool is invoked twice; and discover() calls the
\* interpreter at most once for a tool result, no call starting before the
\* one before it has returned
C28_Sequential ==
    /\ [](batch.active =>
            \A i \in DOMAIN batch.results : batch.results[i].name = external_tools[i].name)
    /\ [](spawns <= runs /\ runs <= Len(external_tools))
    /\ [](\A k \in DOMAIN discover_call.execute_work :
            /\ ~discover_call.execute_work[k].returned => k = Len(discover_call.execute_work)
            /\ \A l \in DOMAIN discover_call.execute_work :
                  discover_call.execute_work[k].result = discover_call.execute_work[l].result
                      => k = l)
    /\ [][runs' = runs + 1 =>
            /\ call.stage = "idle"
            /\ child.state # "running"
            /\ invoked' = external_tools[runs + 1]]_vars

\* discover() has returned after two tools ran as children, one after the
\* other, and the interpreter was asked about both results
C28_Witness ==
    /\ discover_call.stage = "returned"
    /\ spawns = 2
    /\ Len(discover_call.execute_work) = 2
    /\ discover_call.execute_work[1].result = 1
    /\ discover_call.execute_work[2].result = 2

\* ------------------------------------------------- tokens that are skipped
\* the line without its k-th option
Without(sh, k) ==
    [sh EXCEPT !.options = SubSeq(@, 1, k - 1) \o SubSeq(@, k + 1, Len(@))]

\* where the first word of the k-th option stands among the words of the line
TokenOf(sh, k) ==
    Len(sh.verbs.tokens) + Len(sh.title.tokens)
        + Len(Concat([j \in 1..(k - 1) |-> sh.options[j].tokens])) + 1

\* a result but for the line it was parsed from
Fields(p) == [p EXCEPT !.raw_command = <<>>]

\* the words after the verbs that do not start with two dashes
NonFlags(sh) == {i \in 3..Len(Tokens(sh)) : ~StartsWith(Tokens(sh)[i], W.dashes)}

\* C29: an unknown --flag changes nothing: the result of _parse_command is,
\* but for raw_command, the result for the line without that flag; and the
\* title of a valid result is the first word after the verbs that does not
\* start with two dashes
C29_UnknownFlagRemovable ==
    Parsed =>
        /\ \A k \in DOMAIN TheLine.options :
              TheLine.options[k] = Options.unknown
                  => Fields(parsed) = Fields(_parse_command(Render(Without(TheLine, k))))
        /\ parsed.valid
              => NonFlags(TheLine) # {} /\ parsed.title = Tokens(TheLine)[First(NonFlags(TheLine))]

\* the line splits into words, and the first word of the k-th option is
\* examined as an option or a title, not taken as the value of a value
\* option before it
InPosition(sh, k) == sh.title.closed /\ TokenOf(sh, k) \in Examined(Tokens(sh), 3)

\* the unknown flag is all the line has after its verbs
OnlyFlag(sh) == WellFormedVerbs(sh) /\ Len(Tokens(sh)) = 3

\* C29, amended: an unknown --flag among the words of the line that is not
\* taken as the value of a value option before it changes nothing: the result is, but for raw_command, the
\* result for the line without it, except that a line with nothing but the
\* flag after its verbs is rejected for its missing title and the line
\* without it for its verbs; the title of a valid result is the first word
\* that neither starts with two dashes nor is taken as the value of a value
\* option, and a later such word changes nothing either
C29_ExaminedFlagRemovable ==
    Parsed =>
        /\ \A k \in DOMAIN TheLine.options :
              (TheLine.options[k] = Options.unknown /\ InPosition(TheLine, k))
                  => LET other == _parse_command(Render(Without(TheLine, k)))
                     IN  IF OnlyFlag(TheLine)
                         THEN /\ ~parsed.valid /\ ~other.valid
                              /\ parsed.validation_error = "Command must have a title"
                              /\ other.validation_error = "Command must start with 'sugar add'"
                         ELSE Fields(parsed) = Fields(other)
        /\ \A k \in DOMAIN TheLine.options :
              (/\ TheLine.options[k] = Options.positional
               /\ InPosition(TheLine, k)
               /\ TokenOf(TheLine, k) # First(Positionals(TheLine)))
                  => Fields(parsed) = Fields(_parse_command(Render(Without(TheLine, k))))
        /\ parsed.valid
              => /\ Positionals(TheLine) # {}
                 /\ parsed.title = Tokens(TheLine)[First(Positionals(TheLine))]

\* a valid result for a line with a title, an unknown flag and a second
\* word after it
C29_Witness ==
    /\ Parsed /\ parsed.valid
    /\ TheLine.title = Titles.quoted
    /\ TheLine.options = <<Options.unknown, Options.positional>>
    /\ parsed.title = <<"T">>

\* --------------------------------------------------------------- timeouts
\* SpecTimeout: an orchestrator with some default_timeout whose callers pass
\* execute_tool and execute_all a timeout, or none
MaxTimeout == 2
\* most execute_tool invocations of which the timeout is followed
MaxTimed == 3

\* x or y of Python for x an int or None
or(x, y) == IF x.type = "NoneType" \/ (x.type = "int" /\ x.value = 0) THEN y ELSE x

\* execute_tool as far as its timeout goes: "timeout = timeout or
\* self.default_timeout", and the timeout _run_subprocess hands subprocess.run
\* when the existence check lets the call come that far
timeout_of(tool_config, timeout) ==
    [name |-> tool_config.name, timeout |-> timeout,
     run |-> /\ ~SplitRaises(tool_config.command)
             /\ _check_executable_exists(Executable(tool_config.command)),
     subprocess_timeout |-> or(timeout, default_timeout)]

\* the loop of execute_all from tool i on: it ends when execute_tool raises
RECURSIVE timeouts_from(_, _)
timeouts_from(i, timeout_per_tool) ==
    IF i > Len(external_tools) THEN <<>>
    ELSE IF SplitRaises(external_tools[i].command)
    THEN <<timeout_of(external_tools[i], timeout_per_tool)>>
    ELSE <<timeout_of(external_tools[i], timeout_per_tool)>>
             \o timeouts_from(i + 1, timeout_per_tool)

\* the timeouts a caller can pass
Overrides == {None} \cup {PyInt(n) : n \in 0..MaxTimeout}

\* a caller invokes execute_tool(tool_config, timeout)
ExecuteToolTimeout(timeout) ==
    /\ Len(timeouts) < MaxTimed
    /\ \E i \in DOMAIN external_tools :
          timeouts' = Append(timeouts, timeout_of(external_tools[i], timeout))
    /\ UNCHANGED <<orchVars, sigVars, fsVars, runVars, temp_dir, outcome, cleaned, leaked,
                   cleanups, observed, cfgVars, jsonVars, pieces, response, parsed,
                   commands, called, discovery, log, discover_call, default_timeout>>

\* a caller invokes execute_all(timeout_per_tool)
ExecuteAllTimeout(timeout_per_tool) ==
    /\ external_tools # <<>>
    /\ Len(timeouts) + Len(external_tools) <= MaxTimed
    /\ timeouts' = timeouts \o timeouts_from(1, timeout_per_tool)
    /\ UNCHANGED <<orchVars, sigVars, fsVars, runVars, temp_dir, outcome, cleaned, leaked,
                   cleanups, observed, cfgVars, jsonVars, pieces, response, parsed,
                   commands, called, discovery, log, discover_call, default_timeout>>

InitTimeout ==
    /\ RunIdle
    /\ CfgIdle
    /\ json = Json(NoPath)
    /\ answers = <<>>
    /\ executed = <<>>
    /\ discover_call = NotDiscovering
    /\ pieces = NoPieces
    /\ response = <<>>
    /\ parsed = NoParsed
    /\ commands = <<>>
    /\ called = {}
    /\ discovery = Discovery(50, FALSE, FALSE, 0)
    /\ log = <<>>
    /\ external_tools \in {tools \in ToolLists : Len(tools) <= 2}
    /\ constructed = 1
    /\ prior = PythonDefaults
    /\ original_sigint_handler = [o \in Orchs |-> IF o = 1 THEN prior[SIGINT] ELSE NoHandler]
    /\ original_sigterm_handler = [o \in Orchs |-> IF o = 1 THEN prior[SIGTERM] ELSE NoHandler]
    /\ handlers = [s \in Sigs |-> BoundHandler(1)]
    /\ default_timeout \in {PyInt(n) : n \in 1..MaxTimeout} \cup {DEFAULT_TIMEOUT_SECONDS}
    /\ timeouts = <<>>

NextTimeout ==
    \/ \E timeout \in Overrides : ExecuteToolTimeout(timeout)
    \/ \E timeout_per_tool \in Overrides : ExecuteAllTimeout(timeout_per_tool)

SpecTimeout == InitTimeout /\ [][NextTimeout]_vars

\* C30: the timeout subprocess.run is given is the timeout passed to
\* execute_tool or execute_all whenever one is passed, whatever its value,
\* and default_timeout only when none is passed
C30_OverrideEnforced ==
    \A k \in DOMAIN timeouts :
        timeouts[k].run =>
            timeouts[k].subprocess_timeout =
                IF timeouts[k].timeout.type = "NoneType" THEN default_timeout
                ELSE timeouts[k].timeout

\* ------------------------------------------ results of interrupted runs
\* C31: whenever execute_tool returns a result with success = true, the
\* result has an output handle and the file it names exists at that moment,
\* also when a signal was delivered during the invocation and the handlers
\* returned
C31_SuccessHasFile ==
    [][(call.stage = "running" /\ call'.stage = "idle" /\ lastResult'.success)
          => /\ lastResult'.output_path # NoPath
             /\ lastResult'.output_path \in DOMAIN files']_vars

C33_InterpretsExistingFile ==
    \A k \in DOMAIN discover_call.execute_work :
        LET result == discover_call.results[discover_call.execute_work[k].result]
        IN  /\ result.output_path # NoPath
            /\ ~discover_call.execute_work[k].returned
                  => result.output_path \in DOMAIN files

\* ------------------------------------------------ falling back to the summary
\* what _process_tool_result gives for the result of call k on the direct
\* path, from the hashes the instance held before the call
Direct(k) ==
    _process_tool_result([discovery EXCEPT !.use_claude_interpretation = FALSE,
                                           !._processed_hashes = log[k].before],
                         ResultOf(k), ClaudeResult("raises", <<>>))

\* C34: with interpretation enabled, a result for which the interpreter was
\* asked and failed or raised, or for which there is no interpreter to ask,
\* gets from _process_tool_result exactly the work items of the direct
\* path, and the hash of its tool and output prefix is recorded
C34_FallsBackToSummary ==
    \A k \in Processed :
        (/\ discovery.use_claude_interpretation
         /\ ~skipped(ResultOf(k))
         /\ log[k].summarized)
            => /\ log[k].invoked <=> discovery.claude_wrapper
               /\ log[k].work_items = Direct(k).work_items
               /\ output_hash(discovery, ResultOf(k)) \in discovery._processed_hashes

\* the interpreter failed on a new result, which got its summarizing item
C34_Witness ==
    /\ Interpreting
    /\ Len(log) = 2
    /\ log[1].invoked /\ log[1].summarized /\ Len(log[1].work_items) = 1
    /\ log[2].invoked /\ log[2].summarized /\ log[2].work_items = <<>>
    /\ log[2].finding = log[1].finding


\* ==================================================== the process's life
\* SpecProcess: a process constructs orchestrators, runs a tool, calls
\* cleanup(), receives signals at any moment and exits; every removal of a
\* directory succeeds

\* execute_tool as far as tempfile.mkdtemp in _ensure_temp_dir: the directory
\* exists, self.temp_dir is not assigned yet
MakeTempDir(o) ==
    LET tool_config == [name |-> ToolNames[1], command |-> Cmd_ls]
    IN  /\ proc = "alive"
        /\ call.stage = "idle"
        /\ o <= constructed
        /\ runs < MaxSigRuns
        /\ _check_executable_exists(Executable(tool_config.command))
        /\ NeedsTempDir(o)
        /\ mkdtemps < MaxDirs
        /\ dirs' = dirs \cup {mkdtemp(mkdtemps)}
        /\ mkdtemps' = mkdtemps + 1
        /\ runs' = runs + 1
        /\ invoked' = tool_config
        /\ call' = [stage |-> "mkdtemp", o |-> o, tool |-> tool_config,
                    command |-> tool_config.command, output_path |-> NoPath,
                    inAll |-> FALSE]
        /\ cleanups' = 0
        /\ lastResult' = NoResult
        /\ allResults' = <<>>
        /\ outcome' = NoOutcome
        /\ child' = NoChild
        /\ delivery' = NoDelivery
        /\ UNCHANGED <<pipeVars, orchVars, proc, temp_dir, files, batch, handles, spawns,
                       cleaned, leaked, observed>>

\* self.temp_dir = Path(...) of _ensure_temp_dir, then execute_tool goes on
\* to open(output_path, "w") and the spawn
AssignTempDir ==
    LET output_path == OutputPath(mkdtemps, call.tool.name)
    IN  /\ proc = "alive"
        /\ call.stage = "mkdtemp"
        /\ temp_dir' = [temp_dir EXCEPT ![call.o] = mkdtemps]
        /\ delivery' = NoDelivery
        /\ UNCHANGED <<pipeVars, orchVars, proc, dirs, mkdtemps, invoked, runs, cleaned,
                       leaked, observed>>
        /\ \/ \* open(output_path, "w") raises OSError
              /\ Return(_handle_os_error(call.tool.name, call.command))
              /\ child' = NoChild
              /\ UNCHANGED <<files, spawns>>
           \/ \* the child runs
              /\ mkdtemps \in dirs
              /\ files' = WriteFile(files, output_path, <<>>)
              /\ spawns' = spawns + 1
              /\ child' = [NoChild EXCEPT !.state = "running"]
              /\ call' = [call EXCEPT !.stage = "running", !.output_path = output_path]
              /\ UNCHANGED <<batch, handles, cleanups, lastResult, allResults, outcome>>

\* a cleanup() call of a caller, the removal succeeding
CleanupRemoving(o) ==
    /\ Cleanup(o)
    /\ ~outcome'.warned

\* a signal arrives, the removals of the handlers succeeding
DeliverRemoving(signum, frame) ==
    /\ Deliver(signum, frame)
    /\ \A o \in 1..constructed :
          (temp_dir[o] \in dirs /\ temp_dir'[o] = NoDir) => temp_dir[o] \notin dirs'

\* the functions registered with atexit run last registered first: the
\* cleanup of orchestrator n, ..., 1 on st = [temp_dir, dirs, files, warned]
RECURSIVE _run_exitfuncs(_, _)
_run_exitfuncs(n, st) ==
    IF n = 0 THEN st
    ELSE _run_exitfuncs(n - 1, cleanup(st, n, FALSE, {}))

\* the interpreter exits: the main thread has returned from its calls, or
\* the KeyboardInterrupt of the default SIGINT handler has unwound it
Exit ==
    /\ \/ proc = "alive" /\ call.stage = "idle" /\ ~batch.active
       \/ proc = "KeyboardInterrupt"
    /\ proc' = "exited"
    /\ LET st == _run_exitfuncs(constructed, FsState)
       IN  /\ temp_dir' = st.temp_dir
           /\ dirs' = st.dirs
           /\ files' = st.files
           /\ cleaned' = cleaned \cup CleanedBy(1..constructed, temp_dir, st.dirs)
    /\ delivery' = NoDelivery
    /\ cleanups' = 0
    /\ UNCHANGED <<pipeVars, orchVars, mkdtemps, runVars, outcome, leaked, observed>>

InitProcess == InitSignal

NextProcess ==
    \/ Construct
    \/ \E o \in Orchs : ExecuteToolOf(o)
    \/ \E o \in Orchs : MakeTempDir(o)
    \/ AssignTempDir
    \/ ExecuteToolFinish
    \/ \E o \in Orchs : CleanupRemoving(o)
    \/ \E signum \in Sigs, frame \in Frames : DeliverRemoving(signum, frame)
    \/ Exit

SpecProcess == InitProcess /\ [][NextProcess]_vars

\* a cleanup() call of a caller has just run
CleanupCall == cleanups' = cleanups + 1

Over == proc \in {"exited", "killed"}

\* C40: once the process has exited, normally or through SIGINT or SIGTERM,
\* no temporary directory that an orchestrator created remains, removals
\* never failing
C40_NoneRemains == Over => dirs = {}

\* C40, where no signal arrives between mkdtemp and the assignment of
\* temp_dir: once the process is over no directory remains
C40_NoneRemainsOutsideWindow ==
    (Over /\ call.stage # "mkdtemp") => dirs = {}

\* directories were made and all are gone after an exit with no explicit cleanup
C40_ExitRemoves ==
    /\ proc = "exited"
    /\ mkdtemps = MaxDirs
    /\ outcome.op # "cleanup"
    /\ dirs = {}


\* ------------------------------------------------- usable after cleanup
\* an execute_tool invocation starts and gets past the existence check
PassesCheck ==
    /\ runs' = runs + 1
    /\ ~(call'.stage = "idle" /\ lastResult'.tool_not_found)

\* _ensure_temp_dir has made a directory that no invocation used before and
\* temp_dir names it
FreshTempDir ==
    /\ mkdtemps' = mkdtemps + 1
    /\ temp_dir'[1] = mkdtemps'
    /\ temp_dir'[1] \notin 1..mkdtemps
    /\ temp_dir'[1] \in dirs'

RerunNames == {"t1", "./t1", "t2"}

\* SpecRerun: one orchestrator with two tools of distinct names runs them
\* one by one, in any order and again; the results are read, cleanup() is
\* called and the directory can vanish
InitRerun ==
    /\ InitRun
    /\ \E a \in RerunNames, b \in RerunNames :
          /\ a # b
          /\ external_tools = <<[name |-> a, command |-> Cmd_ls],
                                [name |-> b, command |-> Cmd_ls]>>
    /\ constructed = 1
    /\ prior = PythonDefaults
    /\ original_sigint_handler = [o \in Orchs |-> IF o = 1 THEN prior[SIGINT] ELSE NoHandler]
    /\ original_sigterm_handler = [o \in Orchs |-> IF o = 1 THEN prior[SIGTERM] ELSE NoHandler]
    /\ handlers = [s \in Sigs |-> BoundHandler(1)]

NextRerun ==
    \/ ExecuteToolRead
    \/ \E bytes \in Contents : ChildWrite(bytes)
    \/ ExecuteToolFinish
    \/ Cleanup(1)
    \/ ReadStdout
    \/ EnvRemoveDir

SpecRerun == InitRerun /\ [][NextRerun]_vars

\* an invocation opens its output file, the latest result before it having
\* a handle and no cleanup() having been called since
Rerun ==
    /\ call.stage = "idle"
    /\ call'.stage = "running"
    /\ lastResult.output_path # NoPath

\* an invocation that has written to the file of an earlier result returns
Rewritten ==
    /\ call.stage = "running"
    /\ call'.stage = "idle"
    /\ call.output_path \in handles
    /\ call.output_path \in DOMAIN files'

\* C37: with no cleanup() between them two invocations write to the same
\* output file exactly when their tool names are equal; the later one
\* truncates the file, and the stdout of the earlier result is then what the
\* later run has written
C37_SameFileSameName ==
    /\ [][Rerun => /\ (call'.output_path = lastResult.output_path)
                         <=> (call'.tool.name = lastResult.name)
                   /\ (call'.tool.name = lastResult.name)
                         => files'[call'.output_path] = <<>>]_vars
    /\ [][Rewritten => \A p \in {call.output_path} :
                          stdout(ResultAt(p), FALSE)' = Decode(files'[p])]_vars

\* C37 as amended: with no cleanup() between them two invocations write to
\* the same output file exactly when the directory of the earlier one still
\* exists as the later one starts and their tool names give the same file
\* name, as equal names do; the later one truncates the file, and the
\* stdout of the earlier result is then what the later run has written
C37_SameFileSameFileName ==
    /\ [][Rerun => /\ (call'.output_path = lastResult.output_path)
                         <=> /\ FileName(call'.tool.name) = FileName(lastResult.name)
                             /\ lastResult.output_path[1] \in dirs
                   /\ (call'.output_path = lastResult.output_path)
                         => files'[call'.output_path] = <<>>
                   /\ (call'.tool.name = lastResult.name)
                         => FileName(call'.tool.name) = FileName(lastResult.name)]_vars
    /\ [][Rewritten => \A p \in {call.output_path} :
                          stdout(ResultAt(p), FALSE)' = Decode(files'[p])]_vars

\* a tool ran again in the same directory and the file of its earlier
\* result holds the bytes of the later run
C37_Witness ==
    /\ runs = 2
    /\ mkdtemps = 1
    /\ call.stage = "idle"
    /\ lastResult.success
    /\ lastResult.name = "t2"
    /\ handles = {lastResult.output_path}
    /\ lastResult.output_path \in DOMAIN files
    /\ files[lastResult.output_path] # <<>>
    /\ observed.path = lastResult.output_path
    /\ observed.val = Decode(files[lastResult.output_path])


\* ------------------------------------------------- launch failures
\* a result of the OS-error or unexpected-error branch of execute_tool
LaunchFailure(result) ==
    /\ ~result.success /\ result.exit_code = -1
    /\ ~result.timed_out /\ ~result.tool_not_found
    /\ result.output_path = NoPath

\* the loop of discover() has had _process_tool_result answer for its next
\* result without the interpreter
ProcessedDirectly ==
    /\ discover_call.stage = "for"
    /\ discover_call'.index = discover_call.index + 1
    /\ ~(discovery.use_claude_interpretation /\ discovery.claude_wrapper)

\* one summarizing work item of the tool of result has been added
OneSummaryAdded(result) ==
    /\ Len(discover_call'.work_items) = Len(discover_call.work_items) + 1
    /\ SubSeq(discover_call'.work_items, 1, Len(discover_call.work_items))
          = discover_call.work_items
    /\ Summary(discover_call'.work_items[Len(discover_call'.work_items)], <<result.name>>)

MaxLiveTools == 2

\* SpecLive: one orchestrator runs its tools, one by one or as a batch;
\* every child exits or is terminated at its timeout, so that subprocess.run
\* comes back, and the loop of execute_all goes on to its next tool
InitLive ==
    /\ Init
    /\ Len(external_tools) <= MaxLiveTools

\* execute_all is called while it can still run every tool
ExecuteAllLive ==
    /\ runs + Len(external_tools) <= MaxRuns
    /\ ExecuteAllBegin

NextLive ==
    \/ ExecuteTool
    \/ ExecuteAllLive
    \/ ExecuteAllNext
    \/ \E bytes \in Contents : ChildWrite(bytes)
    \/ ExecuteToolFinish

SpecLive ==
    /\ InitLive
    /\ [][NextLive]_vars
    /\ WF_vars(ExecuteToolFinish)
    /\ WF_vars(ExecuteAllNext)

\* an execute_tool call has just ended
Ended ==
    /\ call'.stage = "idle"
    /\ runs' = runs + 1 \/ call.stage = "running"

\* the outcomes of an invocation that result has
Outcomes(result) ==
    {k \in {"completed", "timed out", "not found", "OS error", "unexpected error"} :
        \/ k = "completed" /\ result.success
        \/ k = "timed out" /\ result.timed_out
        \/ k = "not found" /\ result.tool_not_found
        \/ k = "OS error" /\ result.error_message = "OS error executing tool"
        \/ k = "unexpected error" /\ result.error_message = "Unexpected error"}

\* C39: every execute_tool call that waits for its child comes back, every
\* execute_tool call ends by returning a result of exactly one outcome, and
\* every execute_all call returns its list
C39_Returns ==
    /\ [](call.stage = "running" => <>(call.stage = "idle"))
    /\ [][Ended => /\ outcome'.raised = NoneStr
                   /\ Cardinality(Outcomes(lastResult')) = 1]_vars
    /\ [](batch.active => <>(outcome.op = "execute_all" /\ outcome.raised = NoneStr))

\* C39, of the calls that end: every execute_tool call that waits for its
\* child comes back, every execute_tool call ends by returning a result of
\* exactly one outcome or by raising, and every execute_all call ends
C39_Ends ==
    /\ [](call.stage = "running" => <>(call.stage = "idle"))
    /\ [][Ended => \/ outcome'.raised # NoneStr
                   \/ Cardinality(Outcomes(lastResult')) = 1]_vars
    /\ [](batch.active => <>(outcome.op = "execute_all"))

====
